---- MODULE Spec2Model ----
(***************************************************************************)
(* A model of the student-support agent platform: the composite agents     *)
(* (ParallelAgent, SequentialAgent), the session store (MemoryStore), the  *)
(* long-running job manager (LongRunningManager) and the LoopAgent.        *)
(*                                                                         *)
(* Strings are sequences of tokens.  Every component has its own           *)
(* variables, its own next-state relation and its own specification; a     *)
(* component's steps leave the other components' variables unchanged.      *)
(***************************************************************************)
EXTENDS Integers, Sequences, FiniteSets, TLC

VARIABLES
    \* ---- ParallelAgent.handle (agents.py 86-106)
    parN,        \* len(self.agents)
    parPc,       \* position of the calling thread in handle
    parI,        \* index of the `for t in threads` loop being executed
    parSid,      \* argument sid
    parMsg,      \* argument message
    thrPc,       \* per member thread: position in run_agent
    thrR,        \* per member thread: local r
    thrCall,     \* per member thread: the (sid, message) its agent was called with
    thrOut,      \* per member thread: what agent.handle did (returned / raised)
    results,     \* the shared list `results`
    parRet,      \* the string handle returned
    \* ---- SequentialAgent.handle (agents.py 117-121)
    seqN,        \* len(self.agents)
    seqPc,       \* position of the caller in handle
    seqI,        \* index of the agent the for loop is at
    seqSid,      \* argument sid
    seqMsg,      \* argument message
    seqState,    \* local `state`
    seqLog,      \* the calls made so far: [agent, sid, input, out]
    seqRet,      \* the value returned, or the exception that left handle
    \* ---- MemoryStore (memory.py 17-72)
    sessions,    \* self._data["sessions"]: session id -> session
    long_term,    \* self._data["long_term"]
    globals,     \* self._data["globals"]
    file,        \* the document in MEMORY_FILE
    now,         \* the clock datetime.utcnow() reads, in ticks
    memRet,      \* how the last call of the store ended: "ok" or the exception raised
    createdIds,  \* history variable: the ids create_session returned, in call order
    sessLog,     \* history variable: per id, the entries appended to the session now stored under it
    everLog,     \* history variable: per id, the entries appended under it since it was first returned
    nAppend,     \* history variable: the number of append_history calls that returned
    \* ---- append_history called from several threads (memory.py 39-46, 25-26)
    apPc,        \* per thread: position in append_history
    apSid,       \* per thread: argument sid
    apEntry,     \* per thread: the entry being appended
    apTmp,       \* per thread: the value of s["history"][-10:] not yet stored
    apDoc,       \* per thread: the text json.dumps returned, not yet written
    apRet,       \* per thread: how its last call ended
    \* ---- LongRunningManager (longrunning.py 10-54)
    jobs,        \* self.jobs: job id -> the job dict registered under it (an index of jobObjs)
    jobObjs,     \* the job dicts made so far: [status, pc], pc the position of the job's thread
    jobRet,      \* the last call of the manager: [op, id, value]
    \* ---- LoopAgent (longrunning.py 57-91)
    loopRunning, \* self._running
    loopThread,  \* self._thread: an index of loopThreads, 0 for None
    loopThreads, \* the threads start() made so far: the position of each in _run_loop
    loopCtl,     \* position of the thread that calls start() and stop()
    nStart,      \* history variable: the number of start() calls
    loopLast,    \* history variable: per loop thread, how its last check_fn call ended
    \* ---- RootAgent.route (root_agent.py 172-201)
    rtPc,        \* position of the caller in route
    rtSid,       \* argument sid
    rtMsg,       \* argument message
    rtAgent,     \* local `agent`: the key of the subagent chosen
    rtOut,       \* what agent.handle did (returned / raised)
    rtResp,      \* local `resp`
    rtRet,       \* how route ended: the value returned, or the exception that left it
    rtAppends,   \* history variable: how each append_history call of this route call ended
    nRoute,      \* history variable: the number of route calls
    \* ---- best_kb_match (main.py 141-188)
    kbAgent,     \* argument agent_name of the call
    kbMsg,       \* argument message of the call
    kbRet,       \* the answer the call returned, or None
    kbDone,      \* whether the call has returned
    \* ---- ask (main.py 685-829)
    askPc,       \* position in ask: "idle", "route" (in root_agent.route), "parse", "prefer", "more", "final" (before steps 1 to 4), "done"
    askSid,      \* sid of the request
    askMsg,      \* message of the request
    askRouteResult, \* local route_result
    askAgent,    \* local agent_name
    askReply,    \* local reply_text
    askParsed,   \* history variable: agent_name and reply_text after step 1, the parsing
    askLookups,  \* history variable: the agent names best_kb_match was called with, in call order
    askUsedKb,   \* local used_local_kb
    askRet,      \* the JSON response of the last call
    \* ---- _looks_generic_assistant (main.py 758-769)
    genText,     \* argument text of the call
    genRet,      \* the value the call returned
    genDone,     \* whether the call has returned
    \* ---- TechSupportAgent.handle and ProgressAgent.handle (agents.py 41-67)
    leafAgent,   \* the agent whose handle is called: "tech" or "progress"
    leafMsg,     \* argument message
    leafSess,    \* what the store and the student table hold for sid: "unknown", "no code" or "code"
    leafOut,     \* what handle did: the call it returned the value of, the text it returned, or the exception
    leafDone     \* whether the call has ended

parVars == <<parN, parPc, parI, parSid, parMsg, thrPc, thrR, thrCall, thrOut, results, parRet>>
seqVars == <<seqN, seqPc, seqI, seqSid, seqMsg, seqState, seqLog, seqRet>>
memVars == <<sessions, long_term, globals, file, now, memRet, createdIds, sessLog, everLog, nAppend>>
apVars == <<apPc, apSid, apEntry, apTmp, apDoc, apRet>>
jobVars == <<jobs, jobObjs, jobRet>>
loopVars == <<loopRunning, loopThread, loopThreads, loopCtl, nStart, loopLast>>
rtVars == <<rtPc, rtSid, rtMsg, rtAgent, rtOut, rtResp, rtRet, rtAppends, nRoute>>
kbVars == <<kbAgent, kbMsg, kbRet, kbDone>>
askVars == <<askPc, askSid, askMsg, askRouteResult, askAgent, askReply, askParsed, askLookups, askUsedKb, askRet>>
fnVars == <<genText, genRet, genDone, leafAgent, leafMsg, leafSess, leafOut, leafDone>>
routerVars == <<rtVars, kbVars, askVars, fnVars>>
vars == <<parVars, seqVars, memVars, apVars, jobVars, loopVars, routerVars>>

-----------------------------------------------------------------------------
(* Bounds and input sets *)

\* the longest agent list given to a composite agent
MaxAgents == 3

\* session ids handed to the composite agents
CallSids == {"s1", "s2"}

\* the strings agents are called with and return: none contains the separator
Texts == {<<"x">>, <<"y">>, <<"z">>}

\* the messages of the exceptions agents raise
ExcTexts == {"boom"}

\* no value: an unset local, None
None == "None"

\* no string yet
NoText == <<>>

\* no call made yet
NoOutcome == [kind |-> "none", text |-> NoText]

-----------------------------------------------------------------------------
(* Strings *)

\* the separator of ParallelAgent.handle
Separator == "\n---\n"

RECURSIVE Join(_, _)
\* sep.join(parts)
Join(sep, parts) ==
    IF parts = <<>> THEN <<>>
    ELSE IF Len(parts) = 1 THEN parts[1]
    ELSE parts[1] \o <<sep>> \o Join(sep, Tail(parts))

RECURSIVE Split(_, _)
\* s.split(sep): the parts of s between the occurrences of sep
Split(s, sep) ==
    IF \A k \in 1..Len(s) : s[k] # sep THEN <<s>>
    ELSE LET k == CHOOSE j \in 1..Len(s) : s[j] = sep /\ \A h \in 1..(j - 1) : s[h] # sep
         IN  <<SubSeq(s, 1, k - 1)>> \o Split(SubSeq(s, k + 1, Len(s)), sep)

\* f"Agent error: {e}"
AgentErrorText(e) == <<"Agent error: ", e>>

\* what a call of some agent's handle does: it returns a string or raises
Outcomes == [kind : {"returned"}, text : Texts] \cup [kind : {"raised"}, text : ExcTexts]

-----------------------------------------------------------------------------
(* ParallelAgent *)

Members == 1..parN

ParInit ==
    /\ parN \in 1..MaxAgents
    /\ parPc = "idle"
    /\ parI = 0
    /\ parSid = None
    /\ parMsg = NoText
    /\ thrPc = [i \in 1..parN |-> "none"]
    /\ thrR = [i \in 1..parN |-> NoText]
    /\ thrCall = [i \in 1..parN |-> <<None, NoText>>]
    /\ thrOut = [i \in 1..parN |-> NoOutcome]
    /\ results = <<>>
    /\ parRet = NoText

\* handle(sid, message) is entered: results = [], the threads are created
ParCall(sid, message) ==
    /\ parPc \in {"idle", "done"}
    /\ parPc' = "start"
    /\ parI' = 1
    /\ parSid' = sid
    /\ parMsg' = message
    /\ thrPc' = [i \in Members |-> "created"]
    /\ thrR' = [i \in Members |-> NoText]
    /\ thrCall' = [i \in Members |-> <<None, NoText>>]
    /\ thrOut' = [i \in Members |-> NoOutcome]
    /\ results' = <<>>
    /\ parRet' = NoText
    /\ UNCHANGED parN

\* for t in threads: t.start()
ParStart ==
    /\ parPc = "start"
    /\ thrPc' = [thrPc EXCEPT ![parI] = "ready"]
    /\ IF parI = parN
       THEN parPc' = "join" /\ parI' = 1
       ELSE parPc' = "start" /\ parI' = parI + 1
    /\ UNCHANGED <<parN, parSid, parMsg, thrR, thrCall, thrOut, results, parRet>>

\* the value run_agent keeps of its agent's call
RunAgentResult(out) ==
    IF out.kind = "returned" THEN out.text ELSE AgentErrorText(out.text)

\* run_agent: try: r = agent.handle(sid, message) except Exception as e: r = ...
RunAgentHandle(i, out) ==
    /\ thrPc[i] = "ready"
    /\ thrPc' = [thrPc EXCEPT ![i] = "computed"]
    /\ thrCall' = [thrCall EXCEPT ![i] = <<parSid, parMsg>>]
    /\ thrOut' = [thrOut EXCEPT ![i] = out]
    /\ thrR' = [thrR EXCEPT ![i] = RunAgentResult(out)]
    /\ UNCHANGED <<parN, parPc, parI, parSid, parMsg, results, parRet>>

\* run_agent: with lock: results.append(r); the thread ends
RunAgentAppend(i) ==
    /\ thrPc[i] = "computed"
    /\ results' = Append(results, thrR[i])
    /\ thrPc' = [thrPc EXCEPT ![i] = "exited"]
    /\ UNCHANGED <<parN, parPc, parI, parSid, parMsg, thrR, thrCall, thrOut, parRet>>

\* a join that returns although the thread has not ended
ParJoin_Timeout ==
    /\ parPc = "join"
    /\ IF parI = parN
       THEN parPc' = "joined" /\ parI' = 0
       ELSE parPc' = "join" /\ parI' = parI + 1
    /\ UNCHANGED <<parN, parSid, parMsg, thrPc, thrR, thrCall, thrOut, results, parRet>>

\* for t in threads: t.join()
ParJoin ==
    /\ parPc = "join"
    /\ thrPc[parI] = "exited"
    /\ IF parI = parN
       THEN parPc' = "joined" /\ parI' = 0
       ELSE parPc' = "join" /\ parI' = parI + 1
    /\ UNCHANGED <<parN, parSid, parMsg, thrPc, thrR, thrCall, thrOut, results, parRet>>

\* return "\n---\n".join(results)
ParReturn ==
    /\ parPc = "joined"
    /\ parRet' = Join(Separator, results)
    /\ parPc' = "done"
    /\ UNCHANGED <<parN, parI, parSid, parMsg, thrPc, thrR, thrCall, thrOut, results>>

ParNext ==
    \/ \E sid \in CallSids, message \in Texts : ParCall(sid, message)
    \/ ParStart
    \/ \E i \in Members, out \in Outcomes : RunAgentHandle(i, out)
    \/ \E i \in Members : RunAgentAppend(i)
    \/ ParJoin
    \/ ParReturn

-----------------------------------------------------------------------------
(* SequentialAgent *)

SeqInit ==
    /\ seqN \in 1..MaxAgents
    /\ seqPc = "idle"
    /\ seqI = 0
    /\ seqSid = None
    /\ seqMsg = NoText
    /\ seqState = NoText
    /\ seqLog = <<>>
    /\ seqRet = NoOutcome

\* handle(sid, message) is entered: state = message
SeqCall(sid, message) ==
    /\ seqPc \in {"idle", "returned", "raised"}
    /\ seqPc' = "loop"
    /\ seqI' = 1
    /\ seqSid' = sid
    /\ seqMsg' = message
    /\ seqState' = message
    /\ seqLog' = <<>>
    /\ seqRet' = NoOutcome
    /\ UNCHANGED seqN

\* a loop that hands every agent the original message
SeqInput_Original == seqMsg

\* the argument the loop hands to the agent it is at
SeqInput == seqState

\* a loop that catches an agent's exception, keeps an error string as the
\* state and goes on to the next agent
SeqStep_Isolated(out) ==
    /\ seqPc = "loop"
    /\ seqI <= seqN
    /\ seqLog' = Append(seqLog, [agent |-> seqI, sid |-> seqSid, input |-> SeqInput, out |-> out])
    /\ seqState' = (IF out.kind = "returned" THEN out.text ELSE AgentErrorText(out.text))
    /\ seqI' = seqI + 1
    /\ seqPc' = "loop"
    /\ seqRet' = NoOutcome
    /\ UNCHANGED <<seqN, seqSid, seqMsg>>

\* for a in self.agents: state = a.handle(sid, state); an exception leaves handle
SeqStep(out) ==
    /\ seqPc = "loop"
    /\ seqI <= seqN
    /\ seqLog' = Append(seqLog, [agent |-> seqI, sid |-> seqSid, input |-> SeqInput, out |-> out])
    /\ IF out.kind = "returned"
       THEN /\ seqState' = out.text
            /\ seqI' = seqI + 1
            /\ seqPc' = "loop"
            /\ seqRet' = NoOutcome
       ELSE /\ seqPc' = "raised"
            /\ seqRet' = out
            /\ UNCHANGED <<seqState, seqI>>
    /\ UNCHANGED <<seqN, seqSid, seqMsg>>

\* return state
SeqReturn ==
    /\ seqPc = "loop"
    /\ seqI > seqN
    /\ seqRet' = [kind |-> "returned", text |-> seqState]
    /\ seqPc' = "returned"
    /\ UNCHANGED <<seqN, seqI, seqSid, seqMsg, seqState, seqLog>>

SeqNext ==
    \/ \E sid \in CallSids, message \in Texts : SeqCall(sid, message)
    \/ \E out \in Outcomes : SeqStep(out)
    \/ SeqReturn

-----------------------------------------------------------------------------
(* MemoryStore *)

\* the clock ticks this many times a second
TicksPerSecond == 2

\* the last clock reading
MaxClock == 2

\* the usernames sessions are created for
Users == {"alice", "bob"}

Roles == {"user", "assistant"}

\* the texts appended to histories
HistTexts == {"hi"}

\* keys and values of the session state, the long-term memory and the globals
Keys == {"k"}

Values == {"v1"}

\* context compaction keeps this many items
HistoryCap == 10

\* int(datetime.utcnow().timestamp())
Seconds(t) == t \div TicksPerSecond

\* f"sess_{username}_{int(datetime.utcnow().timestamp())}"
SessionId(username, t) == <<"sess_", username, "_", Seconds(t)>>

\* every id create_session can return within the clock's bound
AllSids == {SessionId(u, t) : u \in Users, t \in 0..MaxClock}

\* a dict with no key
EmptyDict == [k \in {} |-> None]

\* d[k] = v
DictSet(d, k, v) == [x \in (DOMAIN d) \cup {k} |-> IF x = k THEN v ELSE d[x]]

\* json.dumps(self._data): the document _flush writes
Document(ss, lt, gl) == [sessions |-> ss, long_term |-> lt, globals |-> gl]

\* h[:10]: a compaction that keeps the oldest items
Compact_KeepOldest(h) ==
    IF Len(h) <= HistoryCap THEN h ELSE SubSeq(h, 1, HistoryCap)

\* h[-10:]
Compact(h) ==
    IF Len(h) <= HistoryCap THEN h ELSE SubSeq(h, Len(h) - HistoryCap + 1, Len(h))

\* MemoryStore() with no MEMORY_FILE: empty data, flushed
MemInit ==
    /\ sessions = EmptyDict
    /\ long_term = EmptyDict
    /\ globals = EmptyDict
    /\ file = Document(EmptyDict, EmptyDict, EmptyDict)
    /\ now = 0
    /\ memRet = None
    /\ createdIds = <<>>
    /\ sessLog = [s \in AllSids |-> <<>>]
    /\ everLog = [s \in AllSids |-> <<>>]
    /\ nAppend = 0

\* time passes
Tick ==
    /\ now < MaxClock
    /\ now' = now + 1
    /\ UNCHANGED <<sessions, long_term, globals, file, memRet, createdIds, sessLog, everLog, nAppend>>

\* the session create_session stores
NewSession(username) ==
    [username |-> username, history |-> <<>>, state |-> EmptyDict, created |-> now]

\* create_session(username)
create_session(username) ==
    LET sid == SessionId(username, now) IN
    /\ sessions' = DictSet(sessions, sid, NewSession(username))
    /\ file' = Document(sessions', long_term, globals)
    /\ memRet' = "ok"
    /\ createdIds' = Append(createdIds, sid)
    /\ sessLog' = [sessLog EXCEPT ![sid] = <<>>]
    /\ UNCHANGED <<long_term, globals, now, everLog, nAppend>>

\* the history append_history leaves: the entry appended, the last 10 kept
AppendedHistory(h, role, text) ==
    Compact(Append(h, [ts |-> now, role |-> role, text |-> text]))

\* append_history(sid, role, text)
append_history(sid, role, text) ==
    IF sid \notin DOMAIN sessions
    THEN /\ memRet' = "KeyError"
         /\ UNCHANGED <<sessions, long_term, globals, file, now, createdIds, sessLog, everLog, nAppend>>
    ELSE /\ sessions' = [sessions EXCEPT ![sid].history = AppendedHistory(@, role, text)]
         /\ file' = Document(sessions', long_term, globals)
         /\ memRet' = "ok"
         /\ sessLog' = [sessLog EXCEPT ![sid] = Append(@, [ts |-> now, role |-> role, text |-> text])]
         /\ everLog' = [everLog EXCEPT ![sid] = Append(@, [ts |-> now, role |-> role, text |-> text])]
         /\ nAppend' = nAppend + 1
         /\ UNCHANGED <<long_term, globals, now, createdIds>>

\* MemoryStore() with MEMORY_FILE present: self._data = json.loads(the file)
LoadedStore == [sessions |-> file.sessions, long_term |-> file.long_term, globals |-> file.globals]

\* get_session(sid)
get_session(sid) == IF sid \in DOMAIN sessions THEN sessions[sid] ELSE None

\* set_session_field with self._data["sessions"].setdefault(sid, ...): an unknown
\* id gets a session of its own
set_session_field_SetDefault(sid, key, value) ==
    /\ sessions' = IF sid \in DOMAIN sessions
                   THEN [sessions EXCEPT ![sid].state = DictSet(@, key, value)]
                   ELSE DictSet(sessions, sid, [NewSession("") EXCEPT !.state = DictSet(@, key, value)])
    /\ file' = Document(sessions', long_term, globals)
    /\ memRet' = "ok"
    /\ UNCHANGED <<long_term, globals, now, createdIds, sessLog, everLog, nAppend>>

\* set_session_field(sid, key, value)
set_session_field(sid, key, value) ==
    IF sid \notin DOMAIN sessions
    THEN /\ memRet' = "KeyError"
         /\ UNCHANGED <<sessions, long_term, globals, file, now, createdIds, sessLog, everLog, nAppend>>
    ELSE /\ sessions' = [sessions EXCEPT ![sid].state = DictSet(@, key, value)]
         /\ file' = Document(sessions', long_term, globals)
         /\ memRet' = "ok"
         /\ UNCHANGED <<long_term, globals, now, createdIds, sessLog, everLog, nAppend>>

\* set_long_term(key, value)
set_long_term(key, value) ==
    /\ long_term' = DictSet(long_term, key, value)
    /\ file' = Document(sessions, long_term', globals)
    /\ memRet' = "ok"
    /\ UNCHANGED <<sessions, globals, now, createdIds, sessLog, everLog, nAppend>>

\* set_global without the _flush() call
set_global_NoFlush(key, value) ==
    /\ globals' = DictSet(globals, key, value)
    /\ memRet' = "ok"
    /\ UNCHANGED <<sessions, long_term, file, now, createdIds, sessLog, everLog, nAppend>>

\* set_global(key, value)
set_global(key, value) ==
    /\ globals' = DictSet(globals, key, value)
    /\ file' = Document(sessions, long_term, globals')
    /\ memRet' = "ok"
    /\ UNCHANGED <<sessions, long_term, now, createdIds, sessLog, everLog, nAppend>>

-----------------------------------------------------------------------------
(* append_history called from several threads at once *)

\* the threads that call append_history
NumAppenders == 2

Appenders == 1..NumAppenders

ApInit ==
    /\ apPc = [t \in Appenders |-> "idle"]
    /\ apSid = [t \in Appenders |-> <<>>]
    /\ apEntry = [t \in Appenders |-> [ts |-> 0, role |-> None, text |-> None]]
    /\ apTmp = [t \in Appenders |-> <<>>]
    /\ apDoc = [t \in Appenders |-> Document(EmptyDict, EmptyDict, EmptyDict)]
    /\ apRet = [t \in Appenders |-> None]

\* no call of append_history is in progress
ApAllIdle == \A t \in Appenders : apPc[t] = "idle"

\* the number of calls in progress
ApInProgress == Cardinality({t \in Appenders : apPc[t] # "idle"})

\* s = self._data["sessions"].get(sid); if s is None: raise KeyError
ApBegin(t, sid, role, text) ==
    /\ apPc[t] = "idle"
    /\ IF sid \notin DOMAIN sessions
       THEN /\ apRet' = [apRet EXCEPT ![t] = "KeyError"]
            /\ UNCHANGED <<apPc, apSid, apEntry>>
       ELSE /\ apPc' = [apPc EXCEPT ![t] = "append"]
            /\ apSid' = [apSid EXCEPT ![t] = sid]
            /\ apEntry' = [apEntry EXCEPT ![t] = [ts |-> now, role |-> role, text |-> text]]
            /\ apRet' = [apRet EXCEPT ![t] = None]
    /\ UNCHANGED <<memVars, apTmp, apDoc>>

\* s["history"].append({...})
ApAppend(t) ==
    /\ apPc[t] = "append"
    /\ sessions' = [sessions EXCEPT ![apSid[t]].history = Append(@, apEntry[t])]
    /\ sessLog' = [sessLog EXCEPT ![apSid[t]] = Append(@, apEntry[t])]
    /\ everLog' = [everLog EXCEPT ![apSid[t]] = Append(@, apEntry[t])]
    /\ apPc' = [apPc EXCEPT ![t] = "slice"]
    /\ UNCHANGED <<long_term, globals, file, now, memRet, createdIds, nAppend, apSid, apEntry, apTmp, apDoc, apRet>>

\* the right-hand side of s["history"] = s["history"][-10:]
ApSlice(t) ==
    /\ apPc[t] = "slice"
    /\ apTmp' = [apTmp EXCEPT ![t] = Compact(sessions[apSid[t]].history)]
    /\ apPc' = [apPc EXCEPT ![t] = "store"]
    /\ UNCHANGED <<memVars, apSid, apEntry, apDoc, apRet>>

\* the assignment of s["history"] = s["history"][-10:]
ApStore(t) ==
    /\ apPc[t] = "store"
    /\ sessions' = [sessions EXCEPT ![apSid[t]].history = apTmp[t]]
    /\ apPc' = [apPc EXCEPT ![t] = "dump"]
    /\ UNCHANGED <<long_term, globals, file, now, memRet, createdIds, sessLog, everLog, nAppend, apSid, apEntry, apTmp, apDoc, apRet>>

\* _flush: json.dumps(self._data, indent=2)
ApDump(t) ==
    /\ apPc[t] = "dump"
    /\ apDoc' = [apDoc EXCEPT ![t] = Document(sessions, long_term, globals)]
    /\ apPc' = [apPc EXCEPT ![t] = "write"]
    /\ UNCHANGED <<memVars, apSid, apEntry, apTmp, apRet>>

\* _flush: MEMORY_FILE.write_text(...); append_history returns
ApWrite(t) ==
    /\ apPc[t] = "write"
    /\ file' = apDoc[t]
    /\ nAppend' = nAppend + 1
    /\ apPc' = [apPc EXCEPT ![t] = "idle"]
    /\ apRet' = [apRet EXCEPT ![t] = "ok"]
    /\ UNCHANGED <<sessions, long_term, globals, now, memRet, createdIds, sessLog, everLog, apSid, apEntry, apTmp, apDoc>>

-----------------------------------------------------------------------------
(* LongRunningManager *)

\* the ids jobs are started, paused, resumed and queried under
JobIds == {"j1", "j2"}

JobInit ==
    /\ jobs = EmptyDict
    /\ jobObjs = <<>>
    /\ jobRet = [op |-> None, id |-> None, value |-> None]

\* the threads of the jobs made so far
JobThreads == 1..Len(jobObjs)

\* a start_job that waits for the target before it returns
start_job_waits(id) ==
    /\ jobObjs' = Append(jobObjs, [status |-> "done", pc |-> "exited"])
    /\ jobs' = DictSet(jobs, id, Len(jobObjs) + 1)
    /\ jobRet' = [op |-> "start_job", id |-> id, value |-> id]

\* a start_job with self.jobs.setdefault(job_id, job): a job registered earlier
\* under the id stays in the table
start_job_KeepsEarlier(id) ==
    /\ jobObjs' = Append(jobObjs, [status |-> "running", pc |-> "running"])
    /\ jobs' = IF id \in DOMAIN jobs THEN jobs ELSE DictSet(jobs, id, Len(jobObjs) + 1)
    /\ jobRet' = [op |-> "start_job", id |-> id, value |-> id]

\* start_job(job_id, target): the job is registered, its thread started, the id returned
start_job(id) ==
    /\ jobObjs' = Append(jobObjs, [status |-> "running", pc |-> "running"])
    /\ jobs' = DictSet(jobs, id, Len(jobObjs) + 1)
    /\ jobRet' = [op |-> "start_job", id |-> id, value |-> id]

\* wrapper: target(*args, **kwargs) returns
TargetReturns(o) ==
    /\ jobObjs[o].pc = "running"
    /\ jobObjs' = [jobObjs EXCEPT ![o].pc = "returned"]
    /\ UNCHANGED <<jobs, jobRet>>

\* wrapper: target(*args, **kwargs) raises an Exception
TargetRaises(o) ==
    /\ jobObjs[o].pc = "running"
    /\ jobObjs' = [jobObjs EXCEPT ![o].pc = "raised"]
    /\ UNCHANGED <<jobs, jobRet>>

\* wrapper: job["status"] = "done", or "failed" in the except clause; the thread ends
WrapperSetStatus(o) ==
    /\ jobObjs[o].pc \in {"returned", "raised"}
    /\ jobObjs' = [jobObjs EXCEPT ![o] =
            [status |-> IF @.pc = "returned" THEN "done" ELSE "failed", pc |-> "exited"]]
    /\ UNCHANGED <<jobs, jobRet>>

\* a pause_job that suspends the job's thread as well
pause_job_suspends(id) ==
    /\ IF id \in DOMAIN jobs
       THEN /\ jobObjs' = [jobObjs EXCEPT ![jobs[id]] =
                    [status |-> "paused", pc |-> IF @.pc = "running" THEN "suspended" ELSE @.pc]]
            /\ jobRet' = [op |-> "pause_job", id |-> id, value |-> "True"]
       ELSE /\ jobRet' = [op |-> "pause_job", id |-> id, value |-> "False"]
            /\ UNCHANGED jobObjs
    /\ UNCHANGED jobs

\* pause_job(job_id)
pause_job(id) ==
    /\ IF id \in DOMAIN jobs
       THEN /\ jobObjs' = [jobObjs EXCEPT ![jobs[id]].status = "paused"]
            /\ jobRet' = [op |-> "pause_job", id |-> id, value |-> "True"]
       ELSE /\ jobRet' = [op |-> "pause_job", id |-> id, value |-> "False"]
            /\ UNCHANGED jobObjs
    /\ UNCHANGED jobs

\* a resume_job that does not test the status
resume_job_unchecked(id) ==
    /\ IF id \in DOMAIN jobs
       THEN /\ jobObjs' = [jobObjs EXCEPT ![jobs[id]].status = "running"]
            /\ jobRet' = [op |-> "resume_job", id |-> id, value |-> "True"]
       ELSE /\ jobRet' = [op |-> "resume_job", id |-> id, value |-> "False"]
            /\ UNCHANGED jobObjs
    /\ UNCHANGED jobs

\* resume_job(job_id)
resume_job(id) ==
    /\ IF id \in DOMAIN jobs /\ jobObjs[jobs[id]].status = "paused"
       THEN /\ jobObjs' = [jobObjs EXCEPT ![jobs[id]].status = "running"]
            /\ jobRet' = [op |-> "resume_job", id |-> id, value |-> "True"]
       ELSE /\ jobRet' = [op |-> "resume_job", id |-> id, value |-> "False"]
            /\ UNCHANGED jobObjs
    /\ UNCHANGED jobs

\* the value of get_status(job_id)
StatusOf(id) == IF id \in DOMAIN jobs THEN jobObjs[jobs[id]].status ELSE "not_found"

\* get_status(job_id)
get_status(id) ==
    /\ jobRet' = [op |-> "get_status", id |-> id, value |-> StatusOf(id)]
    /\ UNCHANGED <<jobs, jobObjs>>

-----------------------------------------------------------------------------
(* LoopAgent *)

\* LoopAgent(check_fn, interval_seconds)
LoopInit ==
    /\ loopRunning = FALSE
    /\ loopThread = 0
    /\ loopThreads = <<>>
    /\ loopCtl = "idle"
    /\ nStart = 0
    /\ loopLast = <<>>

\* t.is_alive()
IsAlive(i) == loopThreads[i] # "dead"

\* the threads that are in the while loop of _run_loop, or about to enter it
Looping == {i \in 1..Len(loopThreads) : loopThreads[i] \in {"started", "test", "check", "sleep"}}

\* start()
LoopAgent_start ==
    /\ loopCtl = "idle"
    /\ nStart' = nStart + 1
    /\ IF loopThread # 0 /\ IsAlive(loopThread)
       THEN UNCHANGED <<loopThread, loopThreads, loopLast>>
       ELSE /\ loopThreads' = Append(loopThreads, "started")
            /\ loopThread' = Len(loopThreads) + 1
            /\ loopLast' = Append(loopLast, "none")
    /\ UNCHANGED <<loopRunning, loopCtl>>

\* stop(): self._running = False; with a thread, join(timeout=1) begins
LoopAgent_stop ==
    /\ loopCtl = "idle"
    /\ loopRunning' = FALSE
    /\ loopCtl' = IF loopThread # 0 THEN "joining" ELSE "stopped"
    /\ UNCHANGED <<loopThread, loopThreads, nStart, loopLast>>

\* stop(): join(timeout=1) returns, the thread having ended or the second
\* having passed; self._thread = None
LoopAgent_stop_joined ==
    /\ loopCtl = "joining"
    /\ loopThread' = 0
    /\ loopCtl' = "stopped"
    /\ UNCHANGED <<loopRunning, loopThreads, nStart, loopLast>>

\* stop() returns
LoopAgent_stop_return ==
    /\ loopCtl = "stopped"
    /\ loopCtl' = "idle"
    /\ UNCHANGED <<loopRunning, loopThread, loopThreads, nStart, loopLast>>

\* _run_loop: self._running = True
RunLoopBegin(i) ==
    /\ loopThreads[i] = "started"
    /\ loopRunning' = TRUE
    /\ loopThreads' = [loopThreads EXCEPT ![i] = "test"]
    /\ UNCHANGED <<loopThread, loopCtl, nStart, loopLast>>

\* _run_loop: while self._running
RunLoopTest(i) ==
    /\ loopThreads[i] = "test"
    /\ loopThreads' = [loopThreads EXCEPT ![i] = IF loopRunning THEN "check" ELSE "exiting"]
    /\ UNCHANGED <<loopRunning, loopThread, loopCtl, nStart, loopLast>>

\* _run_loop: cont = self.check_fn(); if not cont: break
RunLoopCheck(i, cont) ==
    /\ loopThreads[i] = "check"
    /\ loopThreads' = [loopThreads EXCEPT ![i] = IF cont THEN "sleep" ELSE "exiting"]
    /\ loopLast' = [loopLast EXCEPT ![i] = IF cont THEN "True" ELSE "False"]
    /\ UNCHANGED <<loopRunning, loopThread, loopCtl, nStart>>

\* a _run_loop with no try: the exception of check_fn ends the thread
RunLoopCheckRaises_Escapes(i) ==
    /\ loopThreads[i] = "check"
    /\ loopThreads' = [loopThreads EXCEPT ![i] = "dead"]
    /\ loopLast' = [loopLast EXCEPT ![i] = "raised"]
    /\ UNCHANGED <<loopRunning, loopThread, loopCtl, nStart>>

\* _run_loop: self.check_fn() raises; except Exception: cont = False; break
RunLoopCheckRaises(i) ==
    /\ loopThreads[i] = "check"
    /\ loopThreads' = [loopThreads EXCEPT ![i] = "exiting"]
    /\ loopLast' = [loopLast EXCEPT ![i] = "raised"]
    /\ UNCHANGED <<loopRunning, loopThread, loopCtl, nStart>>

\* _run_loop: time.sleep(self.interval) ends
RunLoopWake(i) ==
    /\ loopThreads[i] = "sleep"
    /\ loopThreads' = [loopThreads EXCEPT ![i] = "test"]
    /\ UNCHANGED <<loopRunning, loopThread, loopCtl, nStart, loopLast>>

\* _run_loop: self._running = False; the thread ends
RunLoopExit(i) ==
    /\ loopThreads[i] = "exiting"
    /\ loopRunning' = FALSE
    /\ loopThreads' = [loopThreads EXCEPT ![i] = "dead"]
    /\ UNCHANGED <<loopThread, loopCtl, nStart, loopLast>>

-----------------------------------------------------------------------------
(* Text: str methods on strings written character by character *)

UpperCase == <<"A", "B", "C", "D", "E", "F", "G", "H", "I", "J", "K", "L", "M",
               "N", "O", "P", "Q", "R", "S", "T", "U", "V", "W", "X", "Y", "Z">>

LowerCase == <<"a", "b", "c", "d", "e", "f", "g", "h", "i", "j", "k", "l", "m",
               "n", "o", "p", "q", "r", "s", "t", "u", "v", "w", "x", "y", "z">>

\* the characters str.strip, str.split and str.isspace take for whitespace
Whitespace == {" ", "\n", "\t"}

\* s.lower()
Lower(s) ==
    [k \in 1..Len(s) |->
        IF \E u \in 1..Len(UpperCase) : UpperCase[u] = s[k]
        THEN LowerCase[CHOOSE u \in 1..Len(UpperCase) : UpperCase[u] = s[k]]
        ELSE s[k]]

\* k in s
Contains(s, k) ==
    \E i \in 1..(Len(s) - Len(k) + 1) : SubSeq(s, i, i + Len(k) - 1) = k

\* any(k in text for k in keywords)
ContainsAny(text, keywords) == \E k \in keywords : Contains(text, k)

\* s.isspace()
IsSpace(s) == s # <<>> /\ \A k \in 1..Len(s) : s[k] \in Whitespace

\* s.strip()
Strip(s) ==
    IF \A k \in 1..Len(s) : s[k] \in Whitespace THEN <<>>
    ELSE LET first == CHOOSE i \in 1..Len(s) :
                        s[i] \notin Whitespace /\ \A h \in 1..(i - 1) : s[h] \in Whitespace
             last == CHOOSE j \in 1..Len(s) :
                        s[j] \notin Whitespace /\ \A h \in (j + 1)..Len(s) : s[h] \in Whitespace
         IN  SubSeq(s, first, last)

RECURSIVE Words(_)
\* s.split(): the words of s, in order
Words(s) ==
    LET t == Strip(s) IN
    IF t = <<>> THEN <<>>
    ELSE IF \A k \in 1..Len(t) : t[k] \notin Whitespace THEN <<t>>
    ELSE LET e == CHOOSE j \in 1..Len(t) :
                    t[j] \in Whitespace /\ \A h \in 1..(j - 1) : t[h] \notin Whitespace
         IN  <<SubSeq(t, 1, e - 1)>> \o Words(SubSeq(t, e + 1, Len(t)))

-----------------------------------------------------------------------------
(* RootAgent.route *)

\* the keyword groups of route, in the order of its if / elif chain
OrientationKeywords == {<<"o", "r", "i", "e", "n", "t", "a", "t", "i", "o", "n">>,
                        <<"o", "n", "b", "o", "a", "r", "d", "i", "n", "g">>}

TechKeywords == {<<"l", "o", "c", "k", "d", "o", "w", "n">>,
                 <<"r", "e", "s", "p", "o", "n", "d", "u", "s">>,
                 <<"m", "s", "3", "6", "5">>,
                 <<"l", "o", "g", "i", "n">>,
                 <<"p", "a", "s", "s", "w", "o", "r", "d">>}

ProgressKeywords == {<<"a", "c", "c", "e", "s", "s", " ", "c", "o", "d", "e">>,
                     <<"a", "c", "t", "i", "v", "a", "t", "e">>,
                     <<"c", "o", "u", "r", "s", "e", " ", "s", "t", "a", "t", "u", "s">>}

\* the keys of self.subagents that route chooses among
LeafAgents == {"orientation", "tech", "progress", "faq"}

\* a chain that tests the tech-support group ahead of the orientation group
RouteAgent_TechFirst(message) ==
    LET text == Lower(message) IN
    IF ContainsAny(text, TechKeywords) THEN "tech"
    ELSE IF ContainsAny(text, OrientationKeywords) THEN "orientation"
    ELSE IF ContainsAny(text, ProgressKeywords) THEN "progress"
    ELSE "faq"

\* text = (message or "").lower(); the if / elif chain that chooses the agent
RouteAgent(message) ==
    LET text == Lower(message) IN
    IF ContainsAny(text, OrientationKeywords) THEN "orientation"
    ELSE IF ContainsAny(text, TechKeywords) THEN "tech"
    ELSE IF ContainsAny(text, ProgressKeywords) THEN "progress"
    ELSE "faq"

\* "I'm sorry - something went wrong while handling your request." (the dash
\* of the source is not ASCII)
Apology == <<"I", "'", "m", " ", "s", "o", "r", "r", "y", " ", "-", " ", "s", "o", "m", "e", "t", "h", "i", "n", "g", " ", "w", "e", "n", "t", " ", "w", "r", "o", "n", "g", " ", "w", "h", "i", "l", "e", " ", "h", "a", "n", "d", "l", "i", "n", "g", " ", "y", "o", "u", "r", " ", "r", "e", "q", "u", "e", "s", "t", ".">>

\* the messages route is called with
Msg_ForgotPassword == <<"I", " ", "f", "o", "r", "g", "o", "t", " ", "m", "y", " ", "p", "a", "s", "s", "w", "o", "r", "d">>

Msg_RefundPolicy == <<"w", "h", "a", "t", " ", "i", "s", " ", "t", "h", "e", " ", "r", "e", "f", "u", "n", "d", " ", "p", "o", "l", "i", "c", "y">>

Msg_OrientationLogin == <<"O", "r", "i", "e", "n", "t", "a", "t", "i", "o", "n", " ", "L", "O", "G", "I", "N">>

Msg_LockdownAccessCode == <<"l", "o", "c", "k", "d", "o", "w", "n", " ", "a", "c", "c", "e", "s", "s", " ", "c", "o", "d", "e">>

Msg_AccessCode == <<"A", "c", "c", "e", "s", "s", " ", "C", "o", "d", "e">>

Msg_HowCanIStart == <<"H", "o", "w", " ", "c", "a", "n", " ", "I", " ", "s", "t", "a", "r", "t", "?">>

Msg_ActivateOnboarding == <<"a", "c", "t", "i", "v", "a", "t", "e", " ", "o", "n", "b", "o", "a", "r", "d", "i", "n", "g">>

Msg_Unrelated == <<"x", "y", "z", "z", "y">>

Msg_Blank == <<" ">>

Messages ==
    {Msg_ForgotPassword, Msg_RefundPolicy, Msg_OrientationLogin, Msg_LockdownAccessCode,
     Msg_AccessCode, Msg_HowCanIStart, Msg_ActivateOnboarding, Msg_Unrelated, Msg_Blank}

\* the session ids route is called with: one that create_session returns for
\* alice and one that is never created
RouteSids == {SessionId("alice", 0), SessionId("bob", 0)}

\* the strings a leaf agent's handle returns: none, blank, a short one and one
\* of 21 words
Reply_Empty == <<>>

Reply_Blank == <<" ", " ">>

Reply_Short == <<"R", "e", "s", "e", "t", " ", "i", "t">>

Reply_Long == <<"a", " ", "b", " ", "c", " ", "d", " ", "e", " ", "f", " ", "g", " ", "h", " ", "i", " ", "j", " ", "k", " ", "l", " ", "m", " ", "n", " ", "o", " ", "p", " ", "q", " ", "r", " ", "s", " ", "t", " ", "u">>

AgentReplies == {Reply_Empty, Reply_Blank, Reply_Short, Reply_Long}

\* the agent reads self.memory.get_session(sid)["username"]: OrientationAgent
\* always, ProgressAgent for an "access code" message
NeedsSession(agent, message) ==
    \/ agent = "orientation"
    \/ agent = "progress" /\ Contains(Lower(message), <<"a", "c", "c", "e", "s", "s", " ", "c", "o", "d", "e">>)

\* what the handle of a leaf agent does: get_session(sid) is None for an
\* unknown sid and None["username"] raises TypeError; otherwise a string comes back from the canned answers, the
\* search tool or the LLM
LeafOutcomes(agent, sid, message) ==
    IF NeedsSession(agent, message) /\ sid \notin DOMAIN sessions
    THEN {[kind |-> "raised", text |-> <<"TypeError">>]}
    ELSE [kind : {"returned"}, text : AgentReplies]

\* the root agent as build_root_agent leaves it: no route call made
RouterInit ==
    /\ rtPc = "idle"
    /\ rtSid = <<>>
    /\ rtMsg = NoText
    /\ rtAgent = None
    /\ rtOut = NoOutcome
    /\ rtResp = NoText
    /\ rtRet = NoOutcome
    /\ rtAppends = <<>>
    /\ nRoute = 0

\* route(sid, message) is entered: the agent is chosen
RouteCall(sid, message) ==
    /\ rtPc \in {"idle", "done", "raised"}
    /\ rtPc' = "user"
    /\ rtSid' = sid
    /\ rtMsg' = message
    /\ rtAgent' = RouteAgent(message)
    /\ rtOut' = NoOutcome
    /\ rtResp' = NoText
    /\ rtRet' = NoOutcome
    /\ rtAppends' = <<>>
    /\ nRoute' = nRoute + 1

\* an append_history call whose exception leaves route
RouteAppend_NoTry(role, text, next) ==
    /\ append_history(rtSid, role, text)
    /\ rtAppends' = Append(rtAppends, memRet')
    /\ IF memRet' = "ok"
       THEN rtPc' = next /\ UNCHANGED rtRet
       ELSE rtPc' = "raised" /\ rtRet' = [kind |-> "raised", text |-> <<memRet'>>]

\* try: self.memory.append_history(sid, role, text) except Exception: log it
RouteAppend(role, text, next) ==
    /\ append_history(rtSid, role, text)
    /\ rtAppends' = Append(rtAppends, memRet')
    /\ rtPc' = next
    /\ UNCHANGED rtRet

\* the user message is appended to the history
RouteAppendUser ==
    /\ rtPc = "user"
    /\ RouteAppend("user", rtMsg, "handle")
    /\ UNCHANGED <<rtSid, rtMsg, rtAgent, rtOut, rtResp, nRoute>>

\* try: resp = agent.handle(sid, message) except Exception: resp = the apology
RouteHandle(out) ==
    /\ rtPc = "handle"
    /\ out \in LeafOutcomes(rtAgent, rtSid, rtMsg)
    /\ rtOut' = out
    /\ rtResp' = (IF out.kind = "returned" THEN out.text ELSE Apology)
    /\ rtPc' = "assistant"
    /\ UNCHANGED <<rtSid, rtMsg, rtAgent, rtRet, rtAppends, nRoute>>

\* an assistant entry that records the message in place of the response
RouteAppendAssistant_Message ==
    /\ rtPc = "assistant"
    /\ RouteAppend("assistant", rtMsg, "return")
    /\ UNCHANGED <<rtSid, rtMsg, rtAgent, rtOut, rtResp, nRoute>>

\* the response is appended to the history
RouteAppendAssistant ==
    /\ rtPc = "assistant"
    /\ RouteAppend("assistant", rtResp, "return")
    /\ UNCHANGED <<rtSid, rtMsg, rtAgent, rtOut, rtResp, nRoute>>

\* return resp
RouteReturn ==
    /\ rtPc = "return"
    /\ rtRet' = [kind |-> "returned", text |-> rtResp]
    /\ rtPc' = "done"
    /\ UNCHANGED <<rtSid, rtMsg, rtAgent, rtOut, rtResp, rtAppends, nRoute>>

-----------------------------------------------------------------------------
(* The local knowledge base and best_kb_match *)

\* Agent names are written in pieces, "Agent" being a piece of its own, and
\* the answers of the knowledge base as strings of one piece (the arrows and
\* dashes of the source, which are not ASCII, are written in ASCII).

\* the names of the agents with a list in LOCAL_KB
OrientationAgent == <<"Orientation", "Agent">>

TechSupportAgent == <<"TechSupport", "Agent">>

ProgressAgent == <<"Progress", "Agent">>

FAQAgent == <<"FAQ", "Agent">>

ErrorAgent == <<"Error", "Agent">>

\* the default agent name of ask
Assistant == <<"Assistant">>

KB_Orientation ==
    <<[q |-> <<"h", "o", "w", " ", "c", "a", "n", " ", "i", " ", "s", "t", "a", "r", "t", "?">>,
      a |-> <<"To start: login to your LMS dashboard -> open the Orientation module -> complete lessons and the short quiz. If you can't find it, provide your username.">>],
     [q |-> <<"h", "o", "w", " ", "d", "o", " ", "i", " ", "t", "a", "k", "e", " ", "t", "h", "e", " ", "o", "r", "i", "e", "n", "t", "a", "t", "i", "o", "n", "?">>,
      a |-> <<"Open Dashboard -> Orientation -> Start Module. Complete each lesson and the orientation assessment to be marked complete.">>],
     [q |-> <<"w", "h", "e", "r", "e", " ", "i", "s", " ", "t", "h", "e", " ", "o", "r", "i", "e", "n", "t", "a", "t", "i", "o", "n", " ", "m", "o", "d", "u", "l", "e", "?">>,
      a |-> <<"Orientation is listed under 'My Courses' or 'Course Modules'. If missing, provide your username and I'll check enrollment.">>],
     [q |-> <<"d", "o", " ", "i", " ", "n", "e", "e", "d", " ", "m", "s", " ", "o", "f", "f", "i", "c", "e", "?">>,
      a |-> <<"No. The course is browser-based. You can use MS365 online if you want to practice offline files.">>]>>

KB_TechSupport ==
    <<[q |-> <<"i", " ", "n", "e", "e", "d", " ", "a", "c", "c", "e", "s", "s", " ", "c", "o", "d", "e">>,
      a |-> <<"Please give your username. We'll look for an access code on file or generate/escalate one for you.">>],
     [q |-> <<"i", " ", "c", "a", "n", "'", "t", " ", "l", "o", "g", " ", "i", "n">>,
      a |-> <<"Try 'Forgot password' link. If that fails, give your username and any error text (e.g., 'access denied') and we'll check activation.">>],
     [q |-> <<"h", "o", "w", " ", "d", "o", " ", "i", " ", "i", "n", "s", "t", "a", "l", "l", " ", "l", "o", "c", "k", "d", "o", "w", "n", " ", "b", "r", "o", "w", "s", "e", "r", "?">>,
      a |-> <<"Download the LockDown Browser installer from the LMS Help link, run the installer and then log in to the browser with your LMS credentials.">>],
     [q |-> <<"a", "c", "c", "e", "s", "s", " ", "d", "e", "n", "i", "e", "d", " ", "e", "r", "r", "o", "r">>,
      a |-> <<"This usually means your account isn't activated. Provide username and we will resend activation or escalate to support.">>]>>

KB_Progress ==
    <<[q |-> <<"s", "h", "o", "w", " ", "m", "y", " ", "p", "r", "o", "g", "r", "e", "s", "s">>,
      a |-> <<"Provide your username and I will return modules completed, percent complete, and pending quizzes.">>],
     [q |-> <<"w", "h", "e", "r", "e", " ", "a", "m", " ", "i", " ", "i", "n", " ", "m", "y", " ", "c", "o", "u", "r", "s", "e", "?">>,
      a |-> <<"You are currently on module X. Provide username for exact module name and percent complete.">>],
     [q |-> <<"h", "o", "w", " ", "m", "u", "c", "h", " ", "p", "e", "r", "c", "e", "n", "t", " ", "c", "o", "m", "p", "l", "e", "t", "e", "d", "?">>,
      a |-> <<"Percent complete is computed as (completed lessons / total lessons) * 100. Provide username for exact figure.">>]>>

KB_FAQ ==
    <<[q |-> <<"w", "h", "a", "t", " ", "i", "s", " ", "t", "h", "e", " ", "r", "e", "f", "u", "n", "d", " ", "p", "o", "l", "i", "c", "y", "?">>,
      a |-> <<"Refunds: allowed within 7 days of enrollment if < 10% course completed. Contact support with your username to submit a request.">>],
     [q |-> <<"w", "h", "a", "t", " ", "a", "r", "e", " ", "c", "l", "a", "s", "s", " ", "t", "i", "m", "i", "n", "g", "s", "?">>,
      a |-> <<"Course is self-paced. Live office hours: Monday & Thursday 7-9 PM (local).">>],
     [q |-> <<"h", "o", "w", " ", "l", "o", "n", "g", " ", "i", "s", " ", "t", "h", "e", " ", "c", "o", "u", "r", "s", "e", "?">>,
      a |-> <<"Typical 8-12 weeks depending on learner pace.">>],
     [q |-> <<"d", "o", " ", "i", " ", "g", "e", "t", " ", "a", " ", "c", "e", "r", "t", "i", "f", "i", "c", "a", "t", "e", "?">>,
      a |-> <<"Yes - on 100% completion and passing the final assessment.">>]>>

KB_Error ==
    <<[q |-> <<"s", "e", "r", "v", "e", "r", " ", "e", "r", "r", "o", "r">>,
      a |-> <<"Please copy the full error message and approximate time; we'll check server logs.">>],
     [q |-> <<"a", "p", "p", " ", "c", "r", "a", "s", "h", "e", "d">>,
      a |-> <<"Try clearing browser cache and reloading. If it persists, tell us steps to reproduce and browser/version.">>]>>

\* LOCAL_KB
LOCAL_KB ==
    [n \in {OrientationAgent, TechSupportAgent, ProgressAgent, FAQAgent, ErrorAgent} |->
        CASE n = OrientationAgent -> KB_Orientation
          [] n = TechSupportAgent -> KB_TechSupport
          [] n = ProgressAgent -> KB_Progress
          [] n = FAQAgent -> KB_FAQ
          [] n = ErrorAgent -> KB_Error]

\* LOCAL_KB.get(cname, [])
KbList(cname) == IF cname \in DOMAIN LOCAL_KB THEN LOCAL_KB[cname] ELSE <<>>

\* no answer: None
NoAnswer == [found |-> FALSE, a |-> NoText]

\* the answer entry.get("a")
Answer(entry) == [found |-> TRUE, a |-> entry.a]

RECURSIVE CommonLen(_, _, _, _)
\* the length of the longest block a[i:i+k] == b[j:j+k]
CommonLen(a, b, i, j) ==
    IF i > Len(a) \/ j > Len(b) THEN 0
    ELSE IF a[i] # b[j] THEN 0
    ELSE 1 + CommonLen(a, b, i + 1, j + 1)

\* SequenceMatcher.find_longest_match with no junk: of the longest matching
\* blocks the one that starts earliest in a, and of those the one that starts
\* earliest in b
LongestMatch(a, b) ==
    LET len == [i \in 1..Len(a) |-> [j \in 1..Len(b) |-> CommonLen(a, b, i, j)]]
        k == CHOOSE n \in 0..Len(a) :
                /\ n = 0 \/ \E i \in 1..Len(a), j \in 1..Len(b) : len[i][j] = n
                /\ \A i \in 1..Len(a), j \in 1..Len(b) : len[i][j] <= n
    IN  IF k = 0 THEN [i |-> 0, j |-> 0, k |-> 0]
        ELSE LET i == CHOOSE x \in 1..Len(a) :
                        /\ \E j \in 1..Len(b) : len[x][j] = k
                        /\ \A h \in 1..(x - 1), j \in 1..Len(b) : len[h][j] < k
                 j == CHOOSE y \in 1..Len(b) :
                        len[i][y] = k /\ \A h \in 1..(y - 1) : len[i][h] < k
             IN  [i |-> i, j |-> j, k |-> k]

RECURSIVE MatchCount(_, _)
\* the sum of the sizes of SequenceMatcher.get_matching_blocks: the longest
\* block, then the blocks to its left and to its right
MatchCount(a, b) ==
    IF a = <<>> \/ b = <<>> THEN 0
    ELSE LET m == LongestMatch(a, b) IN
         IF m.k = 0 THEN 0
         ELSE m.k + MatchCount(SubSeq(a, 1, m.i - 1), SubSeq(b, 1, m.j - 1))
                  + MatchCount(SubSeq(a, m.i + m.k, Len(a)), SubSeq(b, m.j + m.k, Len(b)))

\* SequenceMatcher(None, a, b).ratio() = 2.0 * m / t, kept as the pair of m
\* and t; 1.0 for two empty strings
Ratio(a, b) ==
    IF Len(a) + Len(b) = 0 THEN [m |-> 1, t |-> 2]
    ELSE [m |-> MatchCount(a, b), t |-> Len(a) + Len(b)]

\* best_score = 0.0
ZeroScore == [m |-> 0, t |-> 1]

\* score > best_score
ScoreGreater(score, best_score) == score.m * best_score.t > best_score.m * score.t

\* cutoff: float = 0.6, in tenths
CutoffTenths == 6

\* a test that every score passes
MeetsCutoff_Always(score) == TRUE

\* best_score >= cutoff
MeetsCutoff(score) == 2 * score.m * 10 >= CutoffTenths * score.t

\* agent_name.endswith("Agent")
EndsWithAgent(agent_name) == agent_name # <<>> /\ agent_name[Len(agent_name)] = "Agent"

\* agent_name.replace("Agent", "")
WithoutAgent(agent_name) == SelectSeq(agent_name, LAMBDA piece : piece # "Agent")

\* candidates: the name, with "Agent" appended when it does not end with it,
\* with every "Agent" removed when it does
Candidates(agent_name) ==
    <<agent_name>>
        \o (IF ~EndsWithAgent(agent_name) THEN <<agent_name \o <<"Agent">>>> ELSE <<>>)
        \o (IF EndsWithAgent(agent_name) THEN <<WithoutAgent(agent_name)>> ELSE <<>>)

RECURSIVE Unique(_, _)
\* the for loop over candidates: the non-empty names not seen before, in order
Unique(candidates, seen) ==
    IF candidates = <<>> THEN <<>>
    ELSE LET c == Head(candidates) IN
         IF c # <<>> /\ c \notin seen
         THEN <<c>> \o Unique(Tail(candidates), seen \cup {c})
         ELSE Unique(Tail(candidates), seen)

\* final_candidates
FinalCandidates(agent_name) == Unique(Candidates(agent_name), {})

RECURSIVE EntriesOf(_)
\* the entries the two nested for loops visit: candidate by candidate, each
\* list in its order
EntriesOf(cnames) ==
    IF cnames = <<>> THEN <<>> ELSE KbList(Head(cnames)) \o EntriesOf(Tail(cnames))

RECURSIVE BestEntry(_, _, _, _, _)
\* the first pair of loops: best and best_score after entry k and the later
\* entries have been scored
BestEntry(entries, message_norm, k, best, best_score) ==
    IF k > Len(entries) THEN [best |-> best, best_score |-> best_score]
    ELSE LET score == Ratio(message_norm, Lower(entries[k].q)) IN
         IF ScoreGreater(score, best_score)
         THEN BestEntry(entries, message_norm, k + 1, k, score)
         ELSE BestEntry(entries, message_norm, k + 1, best, best_score)

\* set(s.split())
TokenSet(s) == {Words(s)[k] : k \in 1..Len(Words(s))}

\* the second pair of loops: the first entry that shares a word with the message
TokenOverlap(entries, message_norm) ==
    LET tokens == TokenSet(message_norm)
        hits == {k \in 1..Len(entries) :
                    tokens # {} /\ tokens \cap TokenSet(Lower(entries[k].q)) # {}}
    IN  IF hits = {} THEN NoAnswer
        ELSE Answer(entries[CHOOSE k \in hits : \A h \in hits : k <= h])

\* best_kb_match(agent_name, message)
KbMatch(agent_name, message) ==
    IF message = <<>> THEN NoAnswer
    ELSE LET entries == EntriesOf(FinalCandidates(agent_name))
             message_norm == Lower(Strip(message))
             r == BestEntry(entries, message_norm, 1, 0, ZeroScore)
         IN  IF r.best # 0 /\ MeetsCutoff(r.best_score)
             THEN Answer(entries[r.best])
             ELSE TokenOverlap(entries, message_norm)

\* further agent names best_kb_match is called with
KbAgentNames ==
    {OrientationAgent, TechSupportAgent, ProgressAgent, FAQAgent, ErrorAgent, Assistant,
     <<"Orientation">>, <<"TechSupport">>, <<"Progress">>, <<"FAQ">>, <<"Error">>, <<>>}

\* further messages best_kb_match is called with
Msg_Empty == <<>>

Msg_ServerError == <<"S", "e", "r", "v", "e", "r", " ", "E", "r", "r", "o", "r", "!">>

Msg_TakeOrientation == <<" ", " ", "H", "O", "W", " ", "D", "O", " ", "I", " ", "T", "A", "K", "E", " ", "T", "H", "E", " ", "O", "R", "I", "E", "N", "T", "A", "T", "I", "O", "N", "?", " ", " ">>

Msg_Certificate == <<"d", "o", " ", "i", " ", "g", "e", "t", " ", "a", " ", "c", "e", "r", "t", "i", "f", "i", "c", "a", "t">>

KbMessages == Messages \cup {Msg_Empty, Msg_ServerError, Msg_TakeOrientation, Msg_Certificate}

KbInit ==
    /\ kbAgent = <<>>
    /\ kbMsg = NoText
    /\ kbRet = NoAnswer
    /\ kbDone = FALSE

\* the arguments of a call of best_kb_match that has not returned yet
KbInputs ==
    /\ kbAgent \in KbAgentNames
    /\ kbMsg \in KbMessages
    /\ kbRet = NoAnswer
    /\ kbDone = FALSE

\* best_kb_match(agent_name, message) runs and returns
best_kb_match ==
    /\ ~kbDone
    /\ kbRet' = KbMatch(kbAgent, kbMsg)
    /\ kbDone' = TRUE
    /\ UNCHANGED <<kbAgent, kbMsg>>

-----------------------------------------------------------------------------
(* ask: the route result is parsed, the local router and the knowledge base
   stand in for a missing or generic reply *)

\* the tokens of local_route_message, group by group
LocalOrientationTokens ==
    {<<"o", "r", "i", "e", "n", "t", "a", "t", "i", "o", "n">>,
     <<"h", "o", "w", " ", "c", "a", "n", " ", "i", " ", "s", "t", "a", "r", "t">>,
     <<"h", "o", "w", " ", "t", "o", " ", "s", "t", "a", "r", "t">>,
     <<"g", "e", "t", " ", "s", "t", "a", "r", "t", "e", "d">>,
     <<"e", "n", "r", "o", "l", "l">>,
     <<"o", "n", "b", "o", "a", "r", "d">>}

LocalTechTokens ==
    {<<"a", "c", "c", "e", "s", "s", " ", "c", "o", "d", "e">>,
     <<"a", "c", "c", "e", "s", "s", " ", "c", "o", "d", "e", "s">>,
     <<"a", "c", "c", "e", "s", "s", "c", "o", "d", "e">>,
     <<"i", " ", "n", "e", "e", "d", " ", "c", "o", "d", "e">>,
     <<"c", "o", "d", "e">>,
     <<"p", "a", "s", "s", "w", "o", "r", "d">>,
     <<"l", "o", "g", "i", "n">>,
     <<"l", "o", "g", " ", "i", "n">>,
     <<"c", "a", "n", "'", "t", " ", "l", "o", "g">>,
     <<"c", "a", "n", "t", " ", "l", "o", "g">>,
     <<"l", "o", "c", "k", "d", "o", "w", "n">>}

LocalProgressTokens ==
    {<<"p", "r", "o", "g", "r", "e", "s", "s">>,
     <<"w", "h", "e", "r", "e", " ", "a", "m", " ", "i">>,
     <<"p", "e", "r", "c", "e", "n", "t">>,
     <<"c", "o", "m", "p", "l", "e", "t", "i", "o", "n">>,
     <<"c", "o", "m", "p", "l", "e", "t", "e", "d">>,
     <<"g", "r", "a", "d", "e">>}

LocalFAQTokens ==
    {<<"r", "e", "f", "u", "n", "d">>,
     <<"r", "e", "f", "u", "n", "d", " ", "p", "o", "l", "i", "c", "y">>,
     <<"c", "l", "a", "s", "s", " ", "t", "i", "m", "e">>,
     <<"t", "i", "m", "i", "n", "g", "s">>,
     <<"s", "c", "h", "e", "d", "u", "l", "e">>,
     <<"f", "e", "e", "s">>,
     <<"c", "e", "r", "t", "i", "f", "i", "c", "a", "t", "e">>,
     <<"h", "o", "w", " ", "l", "o", "n", "g">>,
     <<"d", "u", "r", "a", "t", "i", "o", "n">>}

LocalErrorTokens ==
    {<<"t", "r", "a", "c", "e", "b", "a", "c", "k">>,
     <<"e", "x", "c", "e", "p", "t", "i", "o", "n">>,
     <<"c", "r", "a", "s", "h">>,
     <<"e", "r", "r", "o", "r">>,
     <<"s", "e", "r", "v", "e", "r">>}

\* local_route_message(message)
local_route_message(message) ==
    LET m == Lower(message) IN
    IF ContainsAny(m, LocalOrientationTokens) THEN OrientationAgent
    ELSE IF ContainsAny(m, LocalTechTokens) THEN TechSupportAgent
    ELSE IF ContainsAny(m, LocalProgressTokens) THEN ProgressAgent
    ELSE IF ContainsAny(m, LocalFAQTokens) THEN FAQAgent
    ELSE IF ContainsAny(m, LocalErrorTokens) THEN ErrorAgent
    ELSE FAQAgent

\* generic_phrases
generic_phrases ==
    {<<"i", " ", "c", "a", "n">>,
     <<"h", "e", "r", "e", " ", "a", "r", "e">>,
     <<"s", "u", "r", "e">>,
     <<"h", "a", "p", "p", "y", " ", "t", "o">>,
     <<"i", "'", "m", " ", "h", "e", "r", "e", " ", "t", "o">>,
     <<"i", " ", "c", "a", "n", " ", "h", "e", "l", "p">>,
     <<"p", "l", "e", "a", "s", "e", " ", "p", "r", "o", "v", "i", "d", "e">>,
     <<"y", "o", "u", " ", "c", "a", "n">>}

\* the most words of a reply that counts as short
ShortReplyWords == 20

\* _looks_generic_assistant with `< 20` for the short-reply test
looks_generic_assistant_Under20(text) ==
    \/ text = <<>>
    \/ ContainsAny(Lower(text), generic_phrases)
    \/ Len(Words(text)) < ShortReplyWords /\ Len(text) > 0

\* _looks_generic_assistant(text)
looks_generic_assistant(text) ==
    \/ text = <<>>
    \/ ContainsAny(Lower(text), generic_phrases)
    \/ Len(Words(text)) <= ShortReplyWords /\ Len(text) > 0

\* no call of _looks_generic_assistant yet
GenInit ==
    /\ genText = <<>>
    /\ genRet = FALSE
    /\ genDone = FALSE

\* a call of _looks_generic_assistant(genText) returns
LooksGenericCall ==
    /\ ~genDone
    /\ genRet' = looks_generic_assistant(genText)
    /\ genDone' = TRUE
    /\ UNCHANGED <<genText, leafAgent, leafMsg, leafSess, leafOut, leafDone>>

\* the most words of the replies the generic test is applied to, the words
\* of a phrase not counted
MaxGenWords == 22

RECURSIVE Repeat(_, _, _)
\* sep.join([w] * n)
Repeat(w, n, sep) ==
    IF n = 0 THEN <<>>
    ELSE IF n = 1 THEN w
    ELSE w \o sep \o Repeat(w, n - 1, sep)

\* the whitespace between the words of a reply
GenSeparators == {<<" ">>, <<" ", "\n">>, <<"\t">>}

\* what a reply ends with: nothing, a word, or a generic phrase as it is listed,
\* in capitals, inside a longer word, or cut short
GenEndings ==
    {<<>>,
     <<"o", "k", ".">>,
     <<"s", "u", "r", "e">>,
     <<"Y", "o", "u", " ", "C", "A", "N">>,
     <<"h", "a", "p", "p", "y", " ", "t", "o">>,
     <<"M", "e", "a", "s", "u", "r", "e", "d">>,
     <<"H", "e", "r", "e", " ", "a", "r">>,
     <<"y", "o", "u", "\n", "c", "a", "n">>}

\* the replies the generic test is applied to
GenTexts ==
    {lead \o Repeat(<<"o", "k">>, n, sep) \o (IF n > 0 /\ e # <<>> THEN sep ELSE <<>>) \o e :
        lead \in {<<>>, <<" ">>}, n \in 0..MaxGenWords, sep \in GenSeparators, e \in GenEndings}

\* the keys _extract_agent_from_dict tries, in order
AgentKeys == <<"agent", "from", "source", "subagent", "handler">>

\* the keys of a reply text, in order
TextKeys == <<"content", "reply", "text", "message", "output", "response">>

\* the keys tried when no text key gave a reply
NestedKeys == <<"result", "results", "items">>

RECURSIVE FirstNonBlank(_, _)
\* the value of the first of the keys under which d holds a string that is not
\* blank; the empty string when there is none
FirstNonBlank(d, keys) ==
    IF keys = <<>> THEN NoText
    ELSE IF Head(keys) \in DOMAIN d /\ Strip(d[Head(keys)]) # <<>> THEN d[Head(keys)]
    ELSE FirstNonBlank(d, Tail(keys))

\* _extract_agent_from_dict(d); None is the empty string here
extract_agent_from_dict(d) == FirstNonBlank(d, AgentKeys)

\* the reply text of a dict: the first text key, else the first nested key,
\* stripped
DictReply(d) ==
    IF FirstNonBlank(d, TextKeys) # <<>> THEN Strip(FirstNonBlank(d, TextKeys))
    ELSE Strip(FirstNonBlank(d, NestedKeys))

\* a dict with no key
EmptyRouteDict == [k \in {} |-> NoText]

\* route_result values: a str, None, a list of strings or a dict of strings
StrResult(text) == [shape |-> "str", text |-> text, items |-> <<>>, d |-> EmptyRouteDict]

NoneResult == [shape |-> "none", text |-> NoText, items |-> <<>>, d |-> EmptyRouteDict]

ListResult(items) == [shape |-> "list", text |-> NoText, items |-> items, d |-> EmptyRouteDict]

DictResult(d) == [shape |-> "dict", text |-> NoText, items |-> <<>>, d |-> d]

\* step 1 of ask: agent_name and reply_text parsed from route_result
ParseRouteResult(route_result) ==
    CASE route_result.shape = "dict" ->
            [agent_name |-> IF extract_agent_from_dict(route_result.d) # <<>>
                            THEN extract_agent_from_dict(route_result.d) ELSE Assistant,
             reply_text |-> DictReply(route_result.d)]
      [] route_result.shape = "list" /\ route_result.items # <<>> ->
            IF Len(route_result.items) >= 2
            THEN [agent_name |-> IF route_result.items[1] # <<>> THEN route_result.items[1] ELSE Assistant,
                  reply_text |-> route_result.items[2]]
            ELSE [agent_name |-> Assistant, reply_text |-> route_result.items[1]]
      [] route_result.shape = "str" ->
            [agent_name |-> Assistant, reply_text |-> Strip(route_result.text)]
      [] OTHER ->
            [agent_name |-> Assistant, reply_text |-> NoText]

\* a test that every agent name passes
NoAttribution_Always(agent_name) == TRUE

\* agent_name in (None, "", "Assistant")
NoAttribution(agent_name) == agent_name \in {<<>>, Assistant}

\* kb_answer = best_kb_match(agent_name, message); if kb_answer: reply_text =
\* kb_answer, used_local_kb = True
AskLookup(agent_name) ==
    \E kb_answer \in {KbMatch(agent_name, askMsg)} :
        /\ askReply' = (IF kb_answer.found /\ kb_answer.a # <<>> THEN kb_answer.a ELSE askReply)
        /\ askUsedKb' = (IF kb_answer.found /\ kb_answer.a # <<>> THEN TRUE ELSE askUsedKb)
        /\ askLookups' = Append(askLookups, agent_name)

\* the static reply of step 4
FinalFallbackText == <<"Sorry - I couldn't find a direct answer. Please provide more details (e.g., username, course code).">>

\* step 4 left out
FinalFallback_Skipped(reply_text) == reply_text

\* step 4 of ask: if not reply_text, the static reply
FinalFallback(reply_text) == IF reply_text = <<>> THEN FinalFallbackText ELSE reply_text

\* the prefix of a reply that came from the knowledge base
LocalKbTag == <<"(LocalKB answer)\n">>

\* len(s.get("history", [])) of s = memory.get_session(sid) or {}
MessagesCount(sid) == IF sid \in DOMAIN sessions THEN Len(sessions[sid].history) ELSE 0

\* no response
NoResponse == [ok |-> "none", reply |-> NoText, agent |-> <<>>, error |-> "", messages_count |-> 0]

\* jsonify({"ok": False, "error": error})
ErrorResponse(error) == [ok |-> "False", reply |-> NoText, agent |-> <<>>, error |-> error, messages_count |-> 0]

\* no parse made
NoParse == [agent_name |-> <<>>, reply_text |-> NoText]

AskInit ==
    /\ askPc = "idle"
    /\ askSid = <<>>
    /\ askMsg = NoText
    /\ askRouteResult = NoneResult
    /\ askAgent = Assistant
    /\ askReply = NoText
    /\ askParsed = NoParse
    /\ askLookups = <<>>
    /\ askUsedKb = FALSE
    /\ askRet = NoResponse

\* ask with no sid or no message: the request is refused
AskRefuse(sid, message) ==
    /\ askPc \in {"idle", "done"}
    /\ sid = <<>> \/ message = <<>>
    /\ askPc' = "done"
    /\ askSid' = sid
    /\ askMsg' = message
    /\ askRouteResult' = NoneResult
    /\ askAgent' = Assistant
    /\ askReply' = NoText
    /\ askParsed' = NoParse
    /\ askLookups' = <<>>
    /\ askUsedKb' = FALSE
    /\ askRet' = ErrorResponse(IF sid = <<>> THEN "sid required" ELSE "message required")

\* ask enters root_agent.route(sid, message)
AskRoute(sid, message) ==
    /\ askPc \in {"idle", "done"}
    /\ sid # <<>> /\ message # <<>>
    /\ RouteCall(sid, message)
    /\ askPc' = "route"
    /\ askSid' = sid
    /\ askMsg' = message
    /\ askRouteResult' = NoneResult
    /\ askAgent' = Assistant
    /\ askReply' = NoText
    /\ askParsed' = NoParse
    /\ askLookups' = <<>>
    /\ askUsedKb' = FALSE
    /\ askRet' = NoResponse

\* route has returned: route_result is its value
AskRouted ==
    /\ askPc = "route"
    /\ rtPc = "done"
    /\ askRouteResult' = StrResult(rtRet.text)
    /\ askPc' = "parse"
    /\ UNCHANGED <<askSid, askMsg, askAgent, askReply, askParsed, askLookups, askUsedKb, askRet>>

\* step 1 of ask: route_result is parsed
AskParse ==
    /\ askPc = "parse"
    /\ \E parsed \in {ParseRouteResult(askRouteResult)} :
        /\ askAgent' = parsed.agent_name
        /\ askReply' = parsed.reply_text
        /\ askParsed' = parsed
    /\ askPc' = "prefer"
    /\ UNCHANGED <<askSid, askMsg, askRouteResult, askLookups, askUsedKb, askRet>>

\* step 2 of ask: with no agent given, a generic or a missing reply makes way
\* for the local router and the knowledge base
AskPreferLocal ==
    /\ askPc = "prefer"
    /\ IF /\ NoAttribution(askAgent)
          /\ (askReply # <<>> /\ ~IsSpace(askReply)) => looks_generic_assistant(askReply)
       THEN /\ askAgent' = local_route_message(askMsg)
            /\ AskLookup(askAgent')
       ELSE UNCHANGED <<askAgent, askReply, askUsedKb, askLookups>>
    /\ askPc' = "more"
    /\ UNCHANGED <<askSid, askMsg, askRouteResult, askParsed, askRet>>

\* step 3 of ask: with no reply_text still, the knowledge base once more
AskKbOnceMore ==
    /\ askPc = "more"
    /\ IF askReply = <<>>
       THEN AskLookup(askAgent)
       ELSE UNCHANGED <<askReply, askUsedKb, askLookups>>
    /\ askPc' = "final"
    /\ UNCHANGED <<askSid, askMsg, askRouteResult, askAgent, askParsed, askRet>>

\* step 4 of ask and its end: the final fallback, the count of the history,
\* the tag of a knowledge-base answer and the response
AskReturn ==
    /\ askPc = "final"
    /\ askReply' = FinalFallback(askReply)
    /\ askRet' = [ok |-> "True",
                  reply |-> IF askUsedKb THEN LocalKbTag \o askReply' ELSE askReply',
                  agent |-> askAgent,
                  error |-> "",
                  messages_count |-> MessagesCount(askSid)]
    /\ askPc' = "done"
    /\ UNCHANGED <<askSid, askMsg, askRouteResult, askAgent, askParsed, askLookups, askUsedKb>>

\* the sids and messages ask is called with
AskSids == RouteSids \cup {<<>>}

AskMessages == Messages \cup {Msg_Empty}

\* results of the shapes the parsing provides for, beside the str of
\* RootAgent.route
ShapedResults ==
    {NoneResult,
     ListResult(<<>>),
     ListResult(<<Reply_Short>>),
     ListResult(<<TechSupportAgent, Reply_Short>>),
     ListResult(<<TechSupportAgent, Reply_Empty>>),
     ListResult(<<TechSupportAgent, Reply_Blank>>),
     ListResult(<<Assistant, Reply_Short>>),
     ListResult(<<NoText, Reply_Blank>>),
     ListResult(<<<<" ">>, Reply_Long>>),
     DictResult(EmptyRouteDict),
     DictResult([k \in {"agent", "reply"} |-> IF k = "agent" THEN OrientationAgent ELSE Reply_Long]),
     DictResult([k \in {"agent", "reply"} |-> IF k = "agent" THEN OrientationAgent ELSE Reply_Short]),
     DictResult([k \in {"handler", "result"} |-> IF k = "handler" THEN FAQAgent ELSE Reply_Blank \o Reply_Short]),
     DictResult([k \in {"agent", "from", "text"} |->
                    IF k = "agent" THEN <<" ">> ELSE IF k = "from" THEN ErrorAgent ELSE Reply_Blank]),
     DictResult([k \in {"content", "message"} |-> IF k = "content" THEN Reply_Blank ELSE Reply_Short]),
     DictResult([k \in {"source"} |-> Assistant])}

\* the route results ask is applied to
RouteResults == {StrResult(text) : text \in AgentReplies \cup {Apology}} \cup ShapedResults

-----------------------------------------------------------------------------
(* The leaf agents TechSupportAgent and ProgressAgent *)

\* return self.llm.generate(prompt)
ViaLlm(prompt) == [via |-> "llm", arg |-> prompt]

\* return self.tools.google_search(query)
ViaSearch(query) == [via |-> "search", arg |-> query]

\* return a text of the agent's own
ViaText(text) == [via |-> "text", arg |-> text]

\* an exception leaves handle
ViaRaise(name) == [via |-> "raised", arg |-> <<name>>]

\* no call made
NoLeafOut == [via |-> "none", arg |-> <<>>]

LockdownPrompt == <<"l", "o", "c", "k", "d", "o", "w", "n", " ", "b", "r", "o", "w", "s", "e", "r", " ", "s", "t", "e", "p", "s">>

Ms365Query == <<"m", "s", "3", "6", "5">>

\* "Try resetting your password via the college portal password reset flow.
\* If that fails, contact helpdesk@example.com."
ResetText == <<"Try resetting your password via the college portal password reset flow. If that fails, contact helpdesk@example.com.">>

\* f"Your access code: {code}"
AccessCodeText == <<"Your access code: ", "code">>

NoAccessCodeText == <<"No access code on file. Please verify username.">>

ActivationText == <<"I can check your course activation status if you give me the course name.">>

\* the activation tokens of ProgressAgent
ActivationTokens == {<<"a", "c", "t", "i", "v", "a", "t", "e", "d">>,
                     <<"a", "c", "t", "i", "v", "a", "t", "e">>,
                     <<"c", "o", "u", "r", "s", "e", " ", "s", "t", "a", "t", "u", "s">>,
                     <<"a", "c", "t", "i", "v", "a", "t", "e", "d", "?">>}

\* a TechSupportAgent.handle that tests office / ms365 ahead of lockdown
TechSupportHandle_OfficeFirst(message) ==
    LET m == Lower(message) IN
    IF Contains(m, <<"m", "s", "3", "6", "5">>) \/ Contains(m, <<"o", "f", "f", "i", "c", "e">>) THEN ViaSearch(Ms365Query)
    ELSE IF Contains(m, <<"l", "o", "c", "k", "d", "o", "w", "n">>) \/ Contains(m, <<"r", "e", "s", "p", "o", "n", "d", "u", "s">>) THEN ViaLlm(LockdownPrompt)
    ELSE IF Contains(m, <<"c", "a", "n", "'", "t", " ", "l", "o", "g", "i", "n">>) \/ Contains(m, <<"f", "o", "r", "g", "o", "t", " ", "p", "a", "s", "s", "w", "o", "r", "d">>) THEN ViaText(ResetText)
    ELSE ViaLlm(message)

\* TechSupportAgent.handle(sid, message)
TechSupportHandle(message) ==
    LET m == Lower(message) IN
    IF Contains(m, <<"l", "o", "c", "k", "d", "o", "w", "n">>) \/ Contains(m, <<"r", "e", "s", "p", "o", "n", "d", "u", "s">>) THEN ViaLlm(LockdownPrompt)
    ELSE IF Contains(m, <<"m", "s", "3", "6", "5">>) \/ Contains(m, <<"o", "f", "f", "i", "c", "e">>) THEN ViaSearch(Ms365Query)
    ELSE IF Contains(m, <<"c", "a", "n", "'", "t", " ", "l", "o", "g", "i", "n">>) \/ Contains(m, <<"f", "o", "r", "g", "o", "t", " ", "p", "a", "s", "s", "w", "o", "r", "d">>) THEN ViaText(ResetText)
    ELSE ViaLlm(message)

\* ProgressAgent.handle(sid, message); sess tells whether get_session(sid) is
\* None (None["username"] raises TypeError) and whether the student table holds
\* access codes for the user
ProgressHandle(sess, message) ==
    LET m == Lower(message) IN
    IF Contains(m, <<"a", "c", "c", "e", "s", "s", " ", "c", "o", "d", "e">>)
    THEN IF sess = "unknown" THEN ViaRaise("TypeError")
         ELSE IF sess = "code" THEN ViaText(AccessCodeText)
         ELSE ViaText(NoAccessCodeText)
    ELSE IF ContainsAny(m, ActivationTokens) THEN ViaText(ActivationText)
    ELSE ViaLlm(message)

\* no call of a leaf agent yet
LeafInit ==
    /\ leafAgent = "tech"
    /\ leafMsg = <<>>
    /\ leafSess = "unknown"
    /\ leafOut = NoLeafOut
    /\ leafDone = FALSE

\* TechSupportAgent.handle(sid, leafMsg) ends
TechSupportCall ==
    /\ ~leafDone
    /\ leafAgent = "tech"
    /\ leafOut' = TechSupportHandle(leafMsg)
    /\ leafDone' = TRUE
    /\ UNCHANGED <<leafAgent, leafMsg, leafSess, genText, genRet, genDone>>

\* ProgressAgent.handle(sid, leafMsg) ends
ProgressCall ==
    /\ ~leafDone
    /\ leafAgent = "progress"
    /\ leafOut' = ProgressHandle(leafSess, leafMsg)
    /\ leafDone' = TRUE
    /\ UNCHANGED <<leafAgent, leafMsg, leafSess, genText, genRet, genDone>>

\* the pieces the messages of the leaf agents are put together from
LeafPieces ==
    {<<"L", "o", "c", "k", "D", "o", "w", "n">>,
     <<"r", "e", "s", "p", "o", "n", "d", "u", "s">>,
     <<"M", "S", "3", "6", "5">>,
     <<"m", "y", " ", "o", "f", "f", "i", "c", "e">>,
     <<"c", "a", "n", "'", "t", " ", "l", "o", "g", "i", "n">>,
     <<"F", "o", "r", "g", "o", "t", " ", "P", "a", "s", "s", "w", "o", "r", "d">>,
     <<"l", "o", "g", "i", "n">>,
     <<"p", "a", "s", "s", "w", "o", "r", "d">>,
     <<"A", "c", "c", "e", "s", "s", " ", "C", "o", "d", "e">>,
     <<"A", "c", "t", "i", "v", "a", "t", "e", "d", "?">>,
     <<"c", "o", "u", "r", "s", "e", " ", "s", "t", "a", "t", "u", "s">>,
     <<"h", "e", "l", "l", "o">>}

\* the most pieces of a message
MaxPieces == 2

RECURSIVE PieceMessages(_)
\* the messages of at most n pieces, a space between two pieces
PieceMessages(n) ==
    IF n = 0 THEN {<<>>}
    ELSE PieceMessages(n - 1) \cup
         {IF m = <<>> THEN piece ELSE m \o <<" ">> \o piece : m \in PieceMessages(n - 1), piece \in LeafPieces}

\* the messages the leaf agents are called with
LeafMessages == PieceMessages(MaxPieces)

-----------------------------------------------------------------------------
(* Specifications *)

\* the most create_session calls of a run
MaxCreates == 2

\* the most append_history calls of a run that exercises the history cap
MaxAppends == 11

\* the most append_history calls of a run in which the clock advances
MaxStoreAppends == 2

Init == ParInit /\ SeqInit /\ MemInit /\ ApInit /\ JobInit /\ LoopInit /\ RouterInit /\ KbInit /\ AskInit /\ GenInit /\ LeafInit

\* the initial states with the composite agents not under study holding one agent
InitPar == Init /\ seqN = 1

InitSeq == Init /\ parN = 1

InitMem == Init /\ parN = 1 /\ seqN = 1

\* ParallelAgent.handle alone, under every interleaving of its member threads
NextPar ==
    \/ \E sid \in CallSids, message \in Texts : ParCall(sid, message) /\ UNCHANGED <<seqVars, memVars, apVars, jobVars, loopVars, routerVars>>
    \/ ParStart /\ UNCHANGED <<seqVars, memVars, apVars, jobVars, loopVars, routerVars>>
    \/ \E i \in Members, out \in Outcomes : RunAgentHandle(i, out) /\ UNCHANGED <<seqVars, memVars, apVars, jobVars, loopVars, routerVars>>
    \/ \E i \in Members : RunAgentAppend(i) /\ UNCHANGED <<seqVars, memVars, apVars, jobVars, loopVars, routerVars>>
    \/ ParJoin /\ UNCHANGED <<seqVars, memVars, apVars, jobVars, loopVars, routerVars>>
    \/ ParReturn /\ UNCHANGED <<seqVars, memVars, apVars, jobVars, loopVars, routerVars>>

SpecPar == InitPar /\ [][NextPar]_vars

\* SequentialAgent.handle alone
NextSeq ==
    \/ \E sid \in CallSids, message \in Texts : SeqCall(sid, message) /\ UNCHANGED <<parVars, memVars, apVars, jobVars, loopVars, routerVars>>
    \/ \E out \in Outcomes : SeqStep(out) /\ UNCHANGED <<parVars, memVars, apVars, jobVars, loopVars, routerVars>>
    \/ SeqReturn /\ UNCHANGED <<parVars, memVars, apVars, jobVars, loopVars, routerVars>>

SpecSeq == InitSeq /\ [][NextSeq]_vars

\* one user's sessions and their histories, called one call at a time, long
\* enough for the history cap to act
NextHist ==
    \/ /\ Len(createdIds) < MaxCreates
       /\ create_session("alice")
       /\ UNCHANGED <<parVars, seqVars, apVars, jobVars, loopVars, routerVars>>
    \/ /\ nAppend < MaxAppends
       /\ \E sid \in {SessionId("alice", 0), SessionId("bob", 0)}, role \in Roles, text \in HistTexts :
            append_history(sid, role, text)
       /\ UNCHANGED <<parVars, seqVars, apVars, jobVars, loopVars, routerVars>>

SpecHist == InitMem /\ [][NextHist]_vars

\* sessions of several users and their histories, called one call at a time,
\* while the clock advances
NextStore ==
    \/ Tick /\ UNCHANGED <<parVars, seqVars, apVars, jobVars, loopVars, routerVars>>
    \/ /\ Len(createdIds) < MaxCreates
       /\ \E u \in Users : create_session(u)
       /\ UNCHANGED <<parVars, seqVars, apVars, jobVars, loopVars, routerVars>>
    \/ /\ nAppend < MaxStoreAppends
       /\ \E sid \in AllSids, role \in Roles, text \in HistTexts : append_history(sid, role, text)
       /\ UNCHANGED <<parVars, seqVars, apVars, jobVars, loopVars, routerVars>>

SpecStore == InitMem /\ [][NextStore]_vars

\* sessions, their state fields, the long-term memory and the globals, called
\* one call at a time
NextFields ==
    \/ /\ Len(createdIds) < MaxCreates
       /\ \E u \in Users : create_session(u)
       /\ UNCHANGED <<parVars, seqVars, apVars, jobVars, loopVars, routerVars>>
    \/ /\ nAppend < MaxStoreAppends
       /\ \E sid \in AllSids, role \in Roles, text \in HistTexts : append_history(sid, role, text)
       /\ UNCHANGED <<parVars, seqVars, apVars, jobVars, loopVars, routerVars>>
    \/ \E sid \in AllSids, k \in Keys, v \in Values : set_session_field(sid, k, v) /\ UNCHANGED <<parVars, seqVars, apVars, jobVars, loopVars, routerVars>>
    \/ \E k \in Keys, v \in Values : set_long_term(k, v) /\ UNCHANGED <<parVars, seqVars, apVars, jobVars, loopVars, routerVars>>
    \/ \E k \in Keys, v \in Values : set_global(k, v) /\ UNCHANGED <<parVars, seqVars, apVars, jobVars, loopVars, routerVars>>

SpecFields == InitMem /\ [][NextFields]_vars

\* the most append_history calls of a run in which threads call it at once
MaxRaceAppends == 3

\* append_history called by several threads at once on the sessions of one
\* user; sessions are created while no call is in progress
NextRace ==
    \/ /\ Len(createdIds) < MaxCreates
       /\ ApAllIdle
       /\ create_session("alice")
       /\ UNCHANGED <<parVars, seqVars, apVars, jobVars, loopVars, routerVars>>
    \/ /\ nAppend + ApInProgress < MaxRaceAppends
       /\ \E t \in Appenders, sid \in {SessionId("alice", 0), SessionId("bob", 0)}, role \in Roles, text \in HistTexts :
            ApBegin(t, sid, role, text)
       /\ UNCHANGED <<parVars, seqVars, jobVars, loopVars, routerVars>>
    \/ \E t \in Appenders : ApAppend(t) /\ UNCHANGED <<parVars, seqVars, jobVars, loopVars, routerVars>>
    \/ \E t \in Appenders : ApSlice(t) /\ UNCHANGED <<parVars, seqVars, jobVars, loopVars, routerVars>>
    \/ \E t \in Appenders : ApStore(t) /\ UNCHANGED <<parVars, seqVars, jobVars, loopVars, routerVars>>
    \/ \E t \in Appenders : ApDump(t) /\ UNCHANGED <<parVars, seqVars, jobVars, loopVars, routerVars>>
    \/ \E t \in Appenders : ApWrite(t) /\ UNCHANGED <<parVars, seqVars, jobVars, loopVars, routerVars>>

SpecRace == InitMem /\ [][NextRace]_vars

\* the most jobs started in a run
MaxJobs == 2

\* the manager's calls and the steps of the jobs' threads, in every interleaving
NextJobs ==
    \/ /\ Len(jobObjs) < MaxJobs
       /\ \E id \in JobIds : start_job(id)
       /\ UNCHANGED <<parVars, seqVars, memVars, apVars, loopVars, routerVars>>
    \/ \E o \in JobThreads : TargetReturns(o) /\ UNCHANGED <<parVars, seqVars, memVars, apVars, loopVars, routerVars>>
    \/ \E o \in JobThreads : TargetRaises(o) /\ UNCHANGED <<parVars, seqVars, memVars, apVars, loopVars, routerVars>>
    \/ \E o \in JobThreads : WrapperSetStatus(o) /\ UNCHANGED <<parVars, seqVars, memVars, apVars, loopVars, routerVars>>
    \/ \E id \in JobIds : pause_job(id) /\ UNCHANGED <<parVars, seqVars, memVars, apVars, loopVars, routerVars>>
    \/ \E id \in JobIds : resume_job(id) /\ UNCHANGED <<parVars, seqVars, memVars, apVars, loopVars, routerVars>>
    \/ \E id \in JobIds : get_status(id) /\ UNCHANGED <<parVars, seqVars, memVars, apVars, loopVars, routerVars>>

SpecJobs == InitMem /\ [][NextJobs]_vars

\* a job's thread that has left the target goes on to record the outcome
JobsFairness ==
    \A o \in 1..MaxJobs :
        WF_vars(o \in JobThreads /\ WrapperSetStatus(o)
                    /\ UNCHANGED <<parVars, seqVars, memVars, apVars, loopVars, routerVars>>)

FairSpecJobs == SpecJobs /\ JobsFairness

\* the most start() calls of a run
MaxStartCalls == 3

\* start() and stop() called one after the other by one thread, and the steps
\* of the loop threads, in every interleaving
NextLoop ==
    \/ /\ nStart < MaxStartCalls
       /\ LoopAgent_start
       /\ UNCHANGED <<parVars, seqVars, memVars, apVars, jobVars, routerVars>>
    \/ LoopAgent_stop /\ UNCHANGED <<parVars, seqVars, memVars, apVars, jobVars, routerVars>>
    \/ LoopAgent_stop_joined /\ UNCHANGED <<parVars, seqVars, memVars, apVars, jobVars, routerVars>>
    \/ LoopAgent_stop_return /\ UNCHANGED <<parVars, seqVars, memVars, apVars, jobVars, routerVars>>
    \/ \E i \in 1..Len(loopThreads) : RunLoopBegin(i) /\ UNCHANGED <<parVars, seqVars, memVars, apVars, jobVars, routerVars>>
    \/ \E i \in 1..Len(loopThreads) : RunLoopTest(i) /\ UNCHANGED <<parVars, seqVars, memVars, apVars, jobVars, routerVars>>
    \/ \E i \in 1..Len(loopThreads), cont \in BOOLEAN : RunLoopCheck(i, cont) /\ UNCHANGED <<parVars, seqVars, memVars, apVars, jobVars, routerVars>>
    \/ \E i \in 1..Len(loopThreads) : RunLoopCheckRaises(i) /\ UNCHANGED <<parVars, seqVars, memVars, apVars, jobVars, routerVars>>
    \/ \E i \in 1..Len(loopThreads) : RunLoopWake(i) /\ UNCHANGED <<parVars, seqVars, memVars, apVars, jobVars, routerVars>>
    \/ \E i \in 1..Len(loopThreads) : RunLoopExit(i) /\ UNCHANGED <<parVars, seqVars, memVars, apVars, jobVars, routerVars>>

SpecLoop == InitMem /\ [][NextLoop]_vars

\* a LoopAgent that is started and left to run: start() calls and the steps
\* of the loop threads, stop() never called
NextLoopRun ==
    \/ /\ nStart < MaxStartCalls
       /\ LoopAgent_start
       /\ UNCHANGED <<parVars, seqVars, memVars, apVars, jobVars, routerVars>>
    \/ \E i \in 1..Len(loopThreads) : RunLoopBegin(i) /\ UNCHANGED <<parVars, seqVars, memVars, apVars, jobVars, routerVars>>
    \/ \E i \in 1..Len(loopThreads) : RunLoopTest(i) /\ UNCHANGED <<parVars, seqVars, memVars, apVars, jobVars, routerVars>>
    \/ \E i \in 1..Len(loopThreads), cont \in BOOLEAN : RunLoopCheck(i, cont) /\ UNCHANGED <<parVars, seqVars, memVars, apVars, jobVars, routerVars>>
    \/ \E i \in 1..Len(loopThreads) : RunLoopCheckRaises(i) /\ UNCHANGED <<parVars, seqVars, memVars, apVars, jobVars, routerVars>>
    \/ \E i \in 1..Len(loopThreads) : RunLoopWake(i) /\ UNCHANGED <<parVars, seqVars, memVars, apVars, jobVars, routerVars>>
    \/ \E i \in 1..Len(loopThreads) : RunLoopExit(i) /\ UNCHANGED <<parVars, seqVars, memVars, apVars, jobVars, routerVars>>

SpecLoopRun == InitMem /\ [][NextLoopRun]_vars

\* a loop thread that can take a step of its own takes it: it starts, tests
\* the flag, wakes from its sleep and ends; check_fn returns or raises
LoopRunFairness ==
    \A i \in 1..MaxStartCalls :
        /\ WF_vars(i \in 1..Len(loopThreads)
                    /\ (RunLoopBegin(i) \/ RunLoopTest(i) \/ RunLoopWake(i) \/ RunLoopExit(i)
                            \/ RunLoopCheckRaises(i) \/ \E cont \in BOOLEAN : RunLoopCheck(i, cont))
                    /\ UNCHANGED <<parVars, seqVars, memVars, apVars, jobVars, routerVars>>)

FairSpecLoopRun == SpecLoopRun /\ LoopRunFairness

\* the most route calls of a run
MaxRouteCalls == 1

\* the initial states of the router's specifications
InitRouter == Init /\ parN = 1 /\ seqN = 1

\* route called one call at a time on a session of alice and on an id that
\* was never created
NextRoute ==
    \/ /\ createdIds = <<>>
       /\ rtPc \in {"idle", "done"}
       /\ create_session("alice")
       /\ UNCHANGED <<parVars, seqVars, apVars, jobVars, loopVars, routerVars>>
    \/ /\ nRoute < MaxRouteCalls
       /\ \E sid \in RouteSids, message \in Messages : RouteCall(sid, message)
       /\ UNCHANGED <<parVars, seqVars, memVars, apVars, jobVars, loopVars, kbVars, askVars, fnVars>>
    \/ RouteAppendUser /\ UNCHANGED <<parVars, seqVars, apVars, jobVars, loopVars, kbVars, askVars, fnVars>>
    \/ \E out \in LeafOutcomes(rtAgent, rtSid, rtMsg) : RouteHandle(out) /\ UNCHANGED <<parVars, seqVars, memVars, apVars, jobVars, loopVars, kbVars, askVars, fnVars>>
    \/ RouteAppendAssistant /\ UNCHANGED <<parVars, seqVars, apVars, jobVars, loopVars, kbVars, askVars, fnVars>>
    \/ RouteReturn /\ UNCHANGED <<parVars, seqVars, memVars, apVars, jobVars, loopVars, kbVars, askVars, fnVars>>

SpecRoute == InitRouter /\ [][NextRoute]_vars

\* the initial states of best_kb_match: one for each agent name and message
InitKb ==
    /\ ParInit /\ SeqInit /\ MemInit /\ ApInit /\ JobInit /\ LoopInit /\ RouterInit /\ AskInit /\ GenInit /\ LeafInit
    /\ KbInputs
    /\ parN = 1 /\ seqN = 1

\* best_kb_match applied to agent names and messages of every kind
NextKb == best_kb_match /\ UNCHANGED <<parVars, seqVars, memVars, apVars, jobVars, loopVars, rtVars, askVars, fnVars>>

SpecKb == InitKb /\ [][NextKb]_vars

\* the initial states of the generic test: one state for each reply
InitGeneric ==
    /\ ParInit /\ SeqInit /\ MemInit /\ ApInit /\ JobInit /\ LoopInit /\ RouterInit /\ KbInit /\ AskInit
    /\ LeafInit
    /\ genText \in GenTexts
    /\ genRet = FALSE
    /\ genDone = FALSE
    /\ parN = 1 /\ seqN = 1

\* _looks_generic_assistant applied to replies of every length up to MaxGenWords
NextGeneric == LooksGenericCall /\ UNCHANGED <<parVars, seqVars, memVars, apVars, jobVars, loopVars, rtVars, kbVars, askVars>>

SpecGeneric == InitGeneric /\ [][NextGeneric]_vars

\* the initial states of the leaf agents: one state for each agent, message
\* and session
InitLeaf ==
    /\ ParInit /\ SeqInit /\ MemInit /\ ApInit /\ JobInit /\ LoopInit /\ RouterInit /\ KbInit /\ AskInit /\ GenInit
    /\ leafAgent \in {"tech", "progress"}
    /\ leafMsg \in LeafMessages
    /\ leafSess \in {"unknown", "no code", "code"}
    /\ leafOut = NoLeafOut
    /\ leafDone = FALSE
    /\ parN = 1 /\ seqN = 1

\* the handle of TechSupportAgent and of ProgressAgent applied to messages
\* that match none, one or several of their conditions
NextLeaf ==
    \/ TechSupportCall /\ UNCHANGED <<parVars, seqVars, memVars, apVars, jobVars, loopVars, rtVars, kbVars, askVars>>
    \/ ProgressCall /\ UNCHANGED <<parVars, seqVars, memVars, apVars, jobVars, loopVars, rtVars, kbVars, askVars>>

SpecLeaf == InitLeaf /\ [][NextLeaf]_vars

\* ask called one call at a time on a session of alice and on an id that was
\* never created, with the root agent build_root_agent made
NextAsk ==
    \/ /\ createdIds = <<>>
       /\ askPc \in {"idle", "done"}
       /\ create_session("alice")
       /\ UNCHANGED <<parVars, seqVars, apVars, jobVars, loopVars, routerVars>>
    \/ /\ \E sid \in AskSids, message \in AskMessages : AskRefuse(sid, message)
       /\ UNCHANGED <<parVars, seqVars, memVars, apVars, jobVars, loopVars, rtVars, kbVars, fnVars>>
    \/ /\ nRoute < MaxRouteCalls
       /\ \E sid \in AskSids, message \in AskMessages : AskRoute(sid, message)
       /\ UNCHANGED <<parVars, seqVars, memVars, apVars, jobVars, loopVars, kbVars, fnVars>>
    \/ RouteAppendUser /\ UNCHANGED <<parVars, seqVars, apVars, jobVars, loopVars, kbVars, askVars, fnVars>>
    \/ \E out \in LeafOutcomes(rtAgent, rtSid, rtMsg) : RouteHandle(out) /\ UNCHANGED <<parVars, seqVars, memVars, apVars, jobVars, loopVars, kbVars, askVars, fnVars>>
    \/ RouteAppendAssistant /\ UNCHANGED <<parVars, seqVars, apVars, jobVars, loopVars, kbVars, askVars, fnVars>>
    \/ RouteReturn /\ UNCHANGED <<parVars, seqVars, memVars, apVars, jobVars, loopVars, kbVars, askVars, fnVars>>
    \/ AskRouted /\ UNCHANGED <<parVars, seqVars, memVars, apVars, jobVars, loopVars, rtVars, kbVars, fnVars>>
    \/ AskParse /\ UNCHANGED <<parVars, seqVars, memVars, apVars, jobVars, loopVars, rtVars, kbVars, fnVars>>
    \/ AskPreferLocal /\ UNCHANGED <<parVars, seqVars, memVars, apVars, jobVars, loopVars, rtVars, kbVars, fnVars>>
    \/ AskKbOnceMore /\ UNCHANGED <<parVars, seqVars, memVars, apVars, jobVars, loopVars, rtVars, kbVars, fnVars>>
    \/ AskReturn /\ UNCHANGED <<parVars, seqVars, memVars, apVars, jobVars, loopVars, rtVars, kbVars, fnVars>>

SpecAsk == InitRouter /\ [][NextAsk]_vars

\* the initial states of the steps of ask after the route call: one for each
\* message and route result
InitAskSteps ==
    /\ ParInit /\ SeqInit /\ MemInit /\ ApInit /\ JobInit /\ LoopInit /\ RouterInit /\ KbInit /\ GenInit /\ LeafInit
    /\ parN = 1 /\ seqN = 1
    /\ askPc = "parse"
    /\ askSid = SessionId("alice", 0)
    /\ askMsg \in Messages
    /\ askRouteResult \in RouteResults
    /\ askAgent = Assistant
    /\ askReply = NoText
    /\ askParsed = NoParse
    /\ askLookups = <<>>
    /\ askUsedKb = FALSE
    /\ askRet = NoResponse

\* the steps of ask after the route call, applied to route results of every shape
NextAskSteps ==
    \/ AskParse /\ UNCHANGED <<parVars, seqVars, memVars, apVars, jobVars, loopVars, rtVars, kbVars, fnVars>>
    \/ AskPreferLocal /\ UNCHANGED <<parVars, seqVars, memVars, apVars, jobVars, loopVars, rtVars, kbVars, fnVars>>
    \/ AskKbOnceMore /\ UNCHANGED <<parVars, seqVars, memVars, apVars, jobVars, loopVars, rtVars, kbVars, fnVars>>
    \/ AskReturn /\ UNCHANGED <<parVars, seqVars, memVars, apVars, jobVars, loopVars, rtVars, kbVars, fnVars>>

SpecAskSteps == InitAskSteps /\ [][NextAskSteps]_vars

-----------------------------------------------------------------------------
(* ParallelAgent: the claims *)

\* what each member contributed, in agent-list order
ParExpected == [i \in 1..parN |-> RunAgentResult(thrOut[i])]

\* C1: ParallelAgent.handle returns the members' results joined by the
\* separator in agent-list order, whatever the order the member threads
\* finished in.
C1_ListOrder ==
    parPc = "done" => Split(parRet, Separator) = ParExpected

\* C2: ParallelAgent.handle returns one part per member; a member whose
\* handle raised has a part containing "Agent error" in its own position and
\* every other member's result stands in its own position.
C2_ErrorInOwnPosition ==
    parPc = "done" =>
        LET parts == Split(parRet, Separator) IN
        /\ Len(parts) = parN
        /\ \A i \in 1..parN :
            IF thrOut[i].kind = "raised"
            THEN \E k \in 1..Len(parts[i]) : parts[i][k] = "Agent error: "
            ELSE parts[i] = thrOut[i].text

\* the step enters handle anew
IsParCall == parPc \in {"idle", "done"} /\ parPc' = "start"

\* C20: ParallelAgent.handle invokes every member exactly once, each with the
\* original message and session id, and returns only after every member's
\* call has finished by returning or raising: while some member has not
\* finished, handle has not returned.
C20_AllMembersOnce ==
    /\ [](\A i \in Members : thrOut[i] # NoOutcome => thrCall[i] = <<parSid, parMsg>>)
    /\ [](parPc \in {"joined", "done"} =>
            \A i \in Members : thrPc[i] = "exited" /\ thrOut[i] # NoOutcome)
    /\ [][\A i \in Members :
            (thrOut[i] # NoOutcome /\ ~IsParCall) =>
                (thrOut'[i] = thrOut[i] /\ thrCall'[i] = thrCall[i])]_vars

\* three members, the second raised, all called with ("s2", "y"): handle has
\* returned
C20_Witness ==
    /\ parPc = "done"
    /\ parN = 3
    /\ thrOut[2].kind = "raised"
    /\ \A i \in Members : thrCall[i] = <<"s2", <<"y">>>> /\ thrPc[i] = "exited"

-----------------------------------------------------------------------------
(* SequentialAgent: the claims *)

\* C3: SequentialAgent.handle calls the agents once each in list order, the
\* first with the raw message and each later one with the output of the one
\* before it, and returns the last agent's output.
C3_Pipeline ==
    /\ \A k \in 1..Len(seqLog) :
        /\ seqLog[k].agent = k
        /\ seqLog[k].sid = seqSid
        /\ seqLog[k].input = (IF k = 1 THEN seqMsg ELSE seqLog[k - 1].out.text)
    /\ seqPc = "returned" =>
        /\ Len(seqLog) = seqN
        /\ seqRet = [kind |-> "returned", text |-> seqLog[seqN].out.text]

\* two agents, the first turning x into y and the second y into z: z is returned
C3_Witness ==
    /\ seqPc = "returned"
    /\ seqN = 2
    /\ seqMsg = <<"x">>
    /\ seqLog[1].out.text = <<"y">>
    /\ seqLog[2].input = <<"y">>
    /\ seqRet.text = <<"z">>

\* C16: when a member's handle raises, the exception leaves
\* SequentialAgent.handle as it is, no member after it is invoked, and no
\* partial result is returned; handle returns a value only when no member
\* raised.
C16_FailurePropagates ==
    /\ \A k \in 1..Len(seqLog) :
        seqLog[k].out.kind = "raised" =>
            /\ k = Len(seqLog)
            /\ seqPc = "raised"
            /\ seqRet = seqLog[k].out
    /\ seqPc = "raised" =>
        /\ seqLog # <<>>
        /\ seqLog[Len(seqLog)].out.kind = "raised"
    /\ seqPc = "returned" =>
        /\ seqRet.kind = "returned"
        /\ \A k \in 1..Len(seqLog) : seqLog[k].out.kind = "returned"

\* three agents, the first returned, the second raised: the third was not
\* invoked and the exception reached the caller
C16_Witness ==
    /\ seqN = 3
    /\ seqPc = "raised"
    /\ Len(seqLog) = 2
    /\ seqLog[1].out.kind = "returned"
    /\ seqRet = [kind |-> "raised", text |-> "boom"]

-----------------------------------------------------------------------------
(* MemoryStore: the claims *)

\* the last n items of a sequence
LastItems(h, n) == IF Len(h) <= n THEN h ELSE SubSeq(h, Len(h) - n + 1, Len(h))

\* C4: after N append_history calls on a session its history holds the
\* min(N, 10) most recent entries in the order they were appended, and no
\* history is longer than 10 (N counts the appends to the session stored
\* under the id, since create_session stored it).
C4_HistoryCap ==
    \A sid \in DOMAIN sessions :
        LET h == sessions[sid].history
            n == Len(sessLog[sid])
        IN  /\ Len(h) = (IF n < 10 THEN n ELSE 10)
            /\ Len(h) <= 10
            /\ \A k \in 1..Len(h) : h[k] = sessLog[sid][n - Len(h) + k]

\* eleven appends to one session, the evicted entry unlike the newest one
C4_Witness ==
    \E sid \in DOMAIN sessions :
        /\ Len(sessLog[sid]) = 11
        /\ Len(sessions[sid].history) = 10
        /\ sessLog[sid][1].role # sessLog[sid][11].role

\* C8: every id create_session returned resolves through get_session, and the
\* history it resolves to is the 10-capped sequence of the entries appended
\* under the id since it was first returned.
C8_SessionsKept ==
    \A k \in 1..Len(createdIds) :
        LET sid == createdIds[k] IN
        /\ sid \in DOMAIN sessions
        /\ sessions[sid].history = LastItems(everLog[sid], 10)

\* C9: no two create_session calls return the same id.
C9_UniqueIds ==
    \A i, j \in 1..Len(createdIds) : i # j => createdIds[i] # createdIds[j]

\* the number of items of h equal to e
Count(h, e) == Cardinality({k \in 1..Len(h) : h[k] = e})

\* C10: when append_history calls on one session run at once, every entry
\* appended is in the history exactly once after the calls have returned
\* (fewer than 10 were appended, so the cap evicts none).
C10_NoLostAppend ==
    ApAllIdle =>
        \A sid \in DOMAIN sessions :
            LET h == sessions[sid].history
                log == sessLog[sid]
            IN  Len(log) <= 10 =>
                    /\ Len(h) = Len(log)
                    /\ \A k \in 1..Len(log) : Count(h, log[k]) = Count(log, log[k])

\* C25: after every completed mutating operation of the store (create_session,
\* append_history, set_session_field, set_long_term, set_global) the document
\* in the file is the whole in-memory state, and a store constructed from the
\* file holds the same sessions, with the same histories and state, the same
\* long-term memory and the same globals.
C25_FileIsMemory ==
    memRet = "ok" =>
        /\ file = Document(sessions, long_term, globals)
        /\ DOMAIN LoadedStore.sessions = DOMAIN sessions
        /\ \A sid \in DOMAIN sessions :
              /\ LoadedStore.sessions[sid].username = sessions[sid].username
              /\ LoadedStore.sessions[sid].history = sessions[sid].history
              /\ LoadedStore.sessions[sid].state = sessions[sid].state
        /\ LoadedStore.long_term = long_term
        /\ LoadedStore.globals = globals

\* all five operations have completed: two sessions, one with a history entry
\* and a state field, a long-term entry and a global
C25_Witness ==
    /\ memRet = "ok"
    /\ Cardinality(DOMAIN sessions) = 2
    /\ \E sid \in DOMAIN sessions :
          /\ Len(sessions[sid].history) > 0
          /\ DOMAIN sessions[sid].state # {}
          /\ file.sessions[sid] = sessions[sid]
    /\ DOMAIN long_term # {}
    /\ DOMAIN globals # {}

\* the parts of the store an operation on an unknown id must leave alone
StoreData == <<sessions, long_term, globals, file>>

\* C30: append_history and set_session_field on an id that is not in the store
\* raise KeyError and leave the store as it was: no session is created, no
\* history and no state changes, the file keeps its content.
C30_UnknownIdNoChange ==
    /\ [](\A sid \in AllSids \ DOMAIN sessions, role \in Roles, text \in HistTexts :
            ~ENABLED (append_history(sid, role, text) /\ ~(memRet' = "KeyError" /\ UNCHANGED StoreData)))
    /\ [](\A sid \in AllSids \ DOMAIN sessions, k \in Keys, v \in Values :
            ~ENABLED (set_session_field(sid, k, v) /\ ~(memRet' = "KeyError" /\ UNCHANGED StoreData)))
    /\ [][memRet' = "KeyError" => UNCHANGED StoreData]_vars
    /\ [](\A sid \in DOMAIN sessions : \E k \in 1..Len(createdIds) : createdIds[k] = sid)

\* a call on an unknown id has raised KeyError while the store holds a session
\* with a history entry and a state field
C30_Witness ==
    /\ memRet = "KeyError"
    /\ \E sid \in DOMAIN sessions :
          /\ Len(sessions[sid].history) > 0
          /\ DOMAIN sessions[sid].state # {}
    /\ DOMAIN sessions # AllSids

-----------------------------------------------------------------------------
(* LongRunningManager: the claims *)

\* the position of the thread of job o, "none" while there is no such job
PcOfJob(o) == IF o \in JobThreads THEN jobObjs[o].pc ELSE "none"

\* the status of job o, "none" while there is no such job
StatusOfJob(o) == IF o \in JobThreads THEN jobObjs[o].status ELSE "none"

\* the step is a call of start_job
IsStartJob == Len(jobObjs') = Len(jobObjs) + 1

\* start_job returns the id with the target not waited for, the job
\* registered under the id and reading running
StartJobReturnsAtOnce ==
    [][IsStartJob =>
        /\ jobObjs'[Len(jobObjs')] = [status |-> "running", pc |-> "running"]
        /\ jobRet'.op = "start_job"
        /\ jobRet'.value = jobRet'.id
        /\ jobs'[jobRet'.id] = Len(jobObjs')]_vars

\* for as long as its body has not finished a job's status is running
RunningWhileBodyRuns ==
    [](\A o \in JobThreads : jobObjs[o].pc = "running" => jobObjs[o].status = "running")

\* for as long as its body has not finished a job's status is running or paused
RunningOrPausedWhileBodyRuns ==
    [](\A o \in JobThreads :
        jobObjs[o].pc = "running" => jobObjs[o].status \in {"running", "paused"})

\* while the body runs nothing but a pause_job takes the status from running
OnlyPauseLeavesRunning ==
    [][\A o \in JobThreads :
        (jobObjs[o].pc = "running" /\ jobObjs[o].status = "running" /\ jobObjs'[o].status # "running")
            => (jobRet'.op = "pause_job" /\ jobRet'.value = "True" /\ jobObjs'[o].status = "paused")]_vars

\* while the body runs nothing but a resume_job takes the status from paused
OnlyResumeLeavesPaused ==
    [][\A o \in JobThreads :
        (jobObjs[o].pc = "running" /\ jobObjs'[o].pc = "running"
            /\ jobObjs[o].status = "paused" /\ jobObjs'[o].status # "paused")
            => (jobRet'.op = "resume_job" /\ jobRet'.value = "True" /\ jobObjs'[o].status = "running")]_vars

\* once the target has returned the status becomes done, once it has raised, failed
OutcomeRecorded ==
    \A o \in 1..MaxJobs :
        /\ (PcOfJob(o) = "returned") ~> (StatusOfJob(o) = "done")
        /\ (PcOfJob(o) = "raised") ~> (StatusOfJob(o) = "failed")

StatusEdges ==
    {<<"running", "paused">>, <<"paused", "running">>, <<"running", "done">>, <<"running", "failed">>}

\* C6: a job's status changes only from running to paused, paused to running,
\* running to done and running to failed; done and failed are never left.
C6_StatusEdges ==
    [][\A o \in JobThreads :
        \/ jobObjs'[o].status = jobObjs[o].status
        \/ <<jobObjs[o].status, jobObjs'[o].status>> \in StatusEdges]_vars

\* the step is a call of pause_job, resume_job or get_status: no job is added
\* and no job's thread moves
IsManagerCall ==
    /\ Len(jobObjs') = Len(jobObjs)
    /\ \A o \in JobThreads : jobObjs'[o].pc = jobObjs[o].pc

\* C19: resume_job on a job whose status is paused sets the status to running
\* and returns true; on a job in any other status, or on an unknown id, it
\* returns false and changes no status.
C19_ResumeOnlyFromPaused ==
    [][(IsManagerCall /\ jobRet'.op = "resume_job") =>
        LET id == jobRet'.id IN
        IF id \in DOMAIN jobs /\ jobObjs[jobs[id]].status = "paused"
        THEN /\ jobRet'.value = "True"
             /\ jobObjs' = [jobObjs EXCEPT ![jobs[id]].status = "running"]
        ELSE /\ jobRet'.value = "False"
             /\ jobObjs' = jobObjs]_vars

\* a paused job has been resumed: it reads running again, its body still running
C19_Witness ==
    /\ jobRet.op = "resume_job"
    /\ jobRet.value = "True"
    /\ jobRet.id \in DOMAIN jobs
    /\ jobObjs[jobs[jobRet.id]] = [status |-> "running", pc |-> "running"]

\* C15: an operation given an unknown id reports it as a value and raises
\* nothing: get_session returns None, append_history and set_session_field
\* raise no KeyError, get_status returns "not_found", pause_job and resume_job
\* return false.
C15_NotFoundIsAValue ==
    /\ memRet # "KeyError"
    /\ \A sid \in AllSids : sid \notin DOMAIN sessions => get_session(sid) = None
    /\ (jobRet.op = "get_status" /\ jobRet.id \notin DOMAIN jobs) => jobRet.value = "not_found"
    /\ (jobRet.op \in {"pause_job", "resume_job"} /\ jobRet.id \notin DOMAIN jobs) =>
            jobRet.value = "False"

\* the steps of a job's thread: the target returns or raises, the wrapper
\* records the outcome and ends
ThreadEdges ==
    {<<"running", "returned">>, <<"running", "raised">>, <<"returned", "exited">>, <<"raised", "exited">>}

\* the step is one of a job's thread, not a call of the manager
IsThreadStep ==
    /\ jobRet' = jobRet
    /\ Len(jobObjs') = Len(jobObjs)
    /\ \E o \in JobThreads : <<jobObjs[o].pc, jobObjs'[o].pc>> \in ThreadEdges

\* C21: pause_job only sets the status of the named job to paused: the job's
\* thread is where it was and goes on with the target while the status reads
\* paused, and no other job's status or thread changes; with an unknown id
\* nothing changes.
C21_PauseOnlySetsFlag ==
    /\ [][(~IsThreadStep /\ jobRet'.op = "pause_job") =>
            LET id == jobRet'.id IN
            /\ jobs' = jobs
            /\ IF id \in DOMAIN jobs
               THEN /\ jobObjs'[jobs[id]] = [status |-> "paused", pc |-> jobObjs[jobs[id]].pc]
                    /\ \A o \in JobThreads \ {jobs[id]} : jobObjs'[o] = jobObjs[o]
               ELSE jobObjs' = jobObjs]_vars
    /\ [](\A o \in 1..MaxJobs :
            (o \in JobThreads /\ jobObjs[o].pc = "running" /\ jobObjs[o].status = "paused")
                => ENABLED TargetReturns(o) /\ ENABLED TargetRaises(o))
    /\ [](\A o \in 1..MaxJobs :
            (o \in JobThreads /\ jobObjs[o].pc \in {"returned", "raised"} /\ jobObjs[o].status = "paused")
                => ENABLED WrapperSetStatus(o))

\* a job was paused while its target ran, and the target has returned with
\* the status still reading paused
C21_Witness ==
    /\ jobRet.op = "pause_job"
    /\ jobRet.value = "True"
    /\ jobRet.id \in DOMAIN jobs
    /\ jobObjs[jobs[jobRet.id]] = [status |-> "paused", pc |-> "returned"]

\* the job dicts that are in the table
Registered == {jobs[id] : id \in DOMAIN jobs}

\* C29: when start_job was called again with an id, get_status for the id
\* reports the status of the newest job only: start_job puts the job dict it
\* has made in the table under the id, in place of an earlier one, no other
\* step changes the table, and the thread of a job that is no longer in the
\* table leaves the status of every job in the table as it was.
C29_NewestJobOnly ==
    /\ [][jobRet'.op = "start_job" /\ Len(jobObjs') # Len(jobObjs) =>
            /\ Len(jobObjs') = Len(jobObjs) + 1
            /\ jobs' = DictSet(jobs, jobRet'.id, Len(jobObjs'))]_vars
    /\ [][Len(jobObjs') = Len(jobObjs) => jobs' = jobs]_vars
    /\ [][(~IsThreadStep /\ jobRet'.op = "get_status" /\ jobRet'.id \in DOMAIN jobs) =>
            jobRet'.value = jobObjs[jobs[jobRet'.id]].status]_vars
    /\ [][\A o \in JobThreads \ Registered :
            jobObjs'[o] # jobObjs[o] =>
                \A h \in Registered : jobObjs'[h] = jobObjs[h]]_vars

\* start_job was called twice with one id; the earlier job has ended done
\* while the newer one still runs, and get_status has reported running
C29_Witness ==
    \E o \in JobThreads \ Registered :
        /\ jobObjs[o] = [status |-> "done", pc |-> "exited"]
        /\ DOMAIN jobs = {jobRet.id}
        /\ jobObjs[jobs[jobRet.id]] = [status |-> "running", pc |-> "running"]
        /\ jobRet = [op |-> "get_status", id |-> jobRet.id, value |-> "running"]

-----------------------------------------------------------------------------
(* LoopAgent: the claims *)

\* C7: a start() called while a loop started by an earlier start() is still
\* running creates no thread, so that at most one loop is running.
C7_StartIdempotent ==
    [][(nStart' = nStart + 1 /\ Looping # {}) => loopThreads' = loopThreads]_vars

\* stop() has been called and no start() has been called since
StopRequested == loopCtl \in {"joining", "stopped"} \/ (loopThread = 0 /\ nStart > 0)

\* C18: once stop() has been called, with no later start(), no loop thread
\* finds the while test true again: a thread finishes at most the check_fn
\* call it had begun and then leaves the loop, however stop() interleaves
\* with the thread's start-up; and the join of stop() never blocks for good.
C18_StopObserved ==
    /\ [][\A i \in 1..Len(loopThreads) :
            ~(StopRequested /\ loopThreads[i] = "test" /\ loopThreads'[i] = "check")]_vars
    /\ [](loopCtl = "joining" => ENABLED LoopAgent_stop_joined)

\* the loop threads made so far
LoopThreadIds == 1..Len(loopThreads)

\* the step is a check_fn call of thread i coming to its end
IsCheckCall(i) == loopThreads[i] = "check" /\ loopThreads'[i] # "check"

\* C22: a started LoopAgent calls check_fn one call at a time; a call that
\* returns true is followed by the wait and then by the next call; after the
\* first call that returns false or raises the thread makes no further call,
\* the exception stays inside the thread, and the thread ends with _running
\* set to False.
C22_LoopUntilFalseOrRaise ==
    /\ [](Cardinality({i \in LoopThreadIds : loopThreads[i] = "check"}) <= 1)
    /\ [][\A i \in LoopThreadIds :
            /\ IsCheckCall(i) =>
                  loopThreads'[i] = (IF loopLast'[i] = "True" THEN "sleep" ELSE "exiting")
            /\ (loopThreads'[i] = "check" /\ loopThreads[i] # "check") => loopThreads[i] = "test"
            /\ (loopThreads[i] = "sleep" /\ loopThreads'[i] # "sleep") => loopThreads'[i] = "test"
            /\ (loopThreads[i] = "test" /\ loopThreads'[i] # "test") => loopThreads'[i] = "check"
            /\ loopLast[i] \in {"False", "raised"} =>
                  loopLast'[i] = loopLast[i] /\ loopThreads'[i] \in {"exiting", "dead"}
            /\ (loopThreads'[i] = "dead" /\ loopThreads[i] # "dead") =>
                  loopThreads[i] = "exiting" /\ loopRunning' = FALSE]_vars
    /\ [](loopRunning => \E i \in LoopThreadIds : loopThreads[i] \in {"test", "check", "sleep", "exiting"})
    /\ \A i \in 1..MaxStartCalls :
            /\ (i \in LoopThreadIds /\ loopThreads[i] = "sleep")
                    ~> (i \in LoopThreadIds /\ loopThreads[i] = "check")
            /\ (i \in LoopThreadIds /\ loopLast[i] \in {"False", "raised"})
                    ~> (i \in LoopThreadIds /\ loopThreads[i] = "dead")

\* one loop has ended after check_fn raised, _running False then; a loop
\* started later has made a call that returned true and waits
C22_Witness ==
    \E i, j \in LoopThreadIds :
        /\ loopThreads[i] = "dead" /\ loopLast[i] = "raised"
        /\ loopThreads[j] = "sleep" /\ loopLast[j] = "True"

\* the loop threads that have found the while test true and are in a check
\* cycle: calling check_fn or waiting for the next call
InCheckCycle == {i \in LoopThreadIds : loopThreads[i] \in {"check", "sleep"}}

\* C28: after any start() and stop() calls at most one loop thread is
\* executing check cycles; a start() after a stop() that has returned leaves
\* no earlier loop thread running beside the new one.
C28_AtMostOneLoop == Cardinality(InCheckCycle) <= 1

-----------------------------------------------------------------------------
(* RootAgent.route: the claims *)

\* the keyword groups in the order the claim gives, each with its agent
KeywordGroups ==
    <<[agent |-> "orientation", keywords |-> OrientationKeywords],
      [agent |-> "tech", keywords |-> TechKeywords],
      [agent |-> "progress", keywords |-> ProgressKeywords]>>

\* the groups with a keyword in the lower-cased message
MatchingGroups(message) ==
    {g \in 1..Len(KeywordGroups) : ContainsAny(Lower(message), KeywordGroups[g].keywords)}

\* C13: route hands the message to the agent of the first keyword group, in
\* the order orientation, tech support, progress, that has a keyword in the
\* lower-cased message, and to the FAQ agent when none has; the agent is one
\* of the four leaf agents; "I forgot my password" goes to tech support and
\* "what is the refund policy" to FAQ.
C13_FirstGroupWins ==
    rtPc # "idle" =>
        LET matching == MatchingGroups(rtMsg) IN
        /\ rtAgent \in LeafAgents
        /\ matching = {} => rtAgent = "faq"
        /\ matching # {} =>
                rtAgent = KeywordGroups[CHOOSE g \in matching : \A h \in matching : g <= h].agent
        /\ rtMsg = Msg_ForgotPassword => rtAgent = "tech"
        /\ rtMsg = Msg_RefundPolicy => rtAgent = "faq"

\* "Orientation LOGIN" has keywords of the orientation and of the tech-support
\* group, in upper case: it went to the orientation agent
C13_Witness ==
    /\ rtPc = "done"
    /\ rtMsg = Msg_OrientationLogin
    /\ MatchingGroups(rtMsg) = {1, 2}
    /\ rtAgent = "orientation"

\* C17: route never raises: also when the agent's handle raised and when the
\* append_history calls failed it returns a string, the apology when the
\* agent raised and the agent's reply otherwise.
C17_RouteNeverRaises ==
    /\ rtPc # "raised"
    /\ rtRet.kind # "raised"
    /\ rtPc = "done" =>
        /\ rtRet.kind = "returned"
        /\ rtOut.kind = "raised" => rtRet.text = Apology
        /\ rtOut.kind = "returned" => rtRet.text = rtOut.text

\* route was called with a session id that is not in the store: both appends
\* failed, the orientation agent raised, and the apology was returned
C17_Witness ==
    /\ rtPc = "done"
    /\ rtSid \notin DOMAIN sessions
    /\ rtAppends = <<"KeyError", "KeyError">>
    /\ rtOut.kind = "raised"
    /\ rtRet = [kind |-> "returned", text |-> Apology]

\* the part of the store that holds the histories
Histories == <<sessions, sessLog, everLog, file>>

\* C27: a route call on an existing session appends exactly two history
\* entries: the user message before the agent is invoked, then an assistant
\* entry whose text is the string route returns (the agent's reply, or the
\* apology when the agent raised); the agent's handle appends nothing.
C27_TwoEntriesPerCall ==
    /\ [][(rtPc = "user" /\ rtPc' = "handle" /\ rtSid \in DOMAIN sessions) =>
            sessLog' = [sessLog EXCEPT ![rtSid] = Append(@, [ts |-> now, role |-> "user", text |-> rtMsg])]]_vars
    /\ [][(rtPc = "handle" /\ rtPc' = "assistant") => UNCHANGED Histories]_vars
    /\ [][(rtPc = "assistant" /\ rtPc' = "return" /\ rtSid \in DOMAIN sessions) =>
            sessLog' = [sessLog EXCEPT ![rtSid] = Append(@, [ts |-> now, role |-> "assistant", text |-> rtResp])]]_vars
    /\ [][(rtPc = "return" /\ rtPc' = "done") => (UNCHANGED Histories /\ rtRet'.text = rtResp)]_vars
    /\ [][(rtPc' = "user" /\ rtPc # "user") => UNCHANGED Histories]_vars
    /\ [](\A sid \in AllSids : Len(sessLog[sid]) <= 2 * nRoute)
    /\ []((rtPc = "done" /\ rtAppends = <<"ok", "ok">>) =>
            LET h == sessions[rtSid].history
                n == Len(h)
            IN  /\ n = Len(sessLog[rtSid])
                /\ n >= 2
                /\ h[n - 1].role = "user" /\ h[n - 1].text = rtMsg
                /\ h[n].role = "assistant" /\ h[n].text = rtRet.text
                /\ rtRet.text = (IF rtOut.kind = "raised" THEN Apology ELSE rtOut.text))

\* route has returned the agent's reply on the session of alice, whose history
\* holds the message and the reply
C27_Witness ==
    /\ rtPc = "done"
    /\ rtAppends = <<"ok", "ok">>
    /\ rtRet = [kind |-> "returned", text |-> Reply_Short]
    /\ Len(sessions[rtSid].history) = 2
    /\ sessions[rtSid].history[1].text = rtMsg
    /\ sessions[rtSid].history[2].text = Reply_Short

\* the name without a final "Agent"
C14_Stripped(agent_name) ==
    IF EndsWithAgent(agent_name) THEN SubSeq(agent_name, 1, Len(agent_name) - 1) ELSE agent_name

\* the aliases of an agent name: the name as given, with "Agent" appended, with
\* "Agent" stripped; a name that comes a second time is left out
C14_Aliases(agent_name) ==
    LET all == <<agent_name, agent_name \o <<"Agent">>, C14_Stripped(agent_name)>>
        kept(k) == IF \A h \in 1..(k - 1) : all[h] # all[k] THEN <<all[k]>> ELSE <<>>
    IN  kept(1) \o kept(2) \o kept(3)

\* the entries of the knowledge-base lists of the aliases, alias by alias
C14_Entries(agent_name) == EntriesOf(C14_Aliases(agent_name))

\* similarity s is at most similarity r
C14_AtMost(s, r) == s.m * r.t <= r.m * s.t

\* similarity s is at least 0.6
C14_AtLeastCutoff(s) == 10 * 2 * s.m >= CutoffTenths * s.t

\* C14: best_kb_match returns the answer of the first of the highest-similarity
\* questions among the lists of the aliases when that similarity is at least
\* 0.6; otherwise the answer of the first entry, in alias order then list
\* order, that shares a word with the lower-cased trimmed message; otherwise no
\* match. A case-different copy of a stored question returns that entry's
\* answer, and a message that shares no word with any question and scores
\* below 0.6 returns no match.
C14_BestOrOverlapOrNone ==
    kbDone =>
    LET entries == C14_Entries(kbAgent)
        norm == Lower(Strip(kbMsg))
        sim == [k \in 1..Len(entries) |-> Ratio(norm, Lower(entries[k].q))]
        top == {k \in 1..Len(entries) : \A h \in 1..Len(entries) : C14_AtMost(sim[h], sim[k])}
        shared == {k \in 1..Len(entries) : TokenSet(norm) \cap TokenSet(Lower(entries[k].q)) # {}}
        first(S) == CHOOSE k \in S : \A h \in S : k <= h
    IN  /\ IF top # {} /\ C14_AtLeastCutoff(sim[first(top)])
           THEN kbRet = [found |-> TRUE, a |-> entries[first(top)].a]
           ELSE IF shared # {}
           THEN kbRet = [found |-> TRUE, a |-> entries[first(shared)].a]
           ELSE kbRet = [found |-> FALSE, a |-> NoText]
        /\ \A k \in 1..Len(entries) :
              Lower(kbMsg) = Lower(entries[k].q) /\ kbMsg # entries[k].q
                  => kbRet = [found |-> TRUE, a |-> entries[k].a]
        /\ kbAgent = OrientationAgent /\ kbMsg = Msg_HowCanIStart
              => kbRet = [found |-> TRUE, a |-> KB_Orientation[1].a]
        /\ shared = {} /\ (\A k \in 1..Len(entries) : ~C14_AtLeastCutoff(sim[k]))
              => ~kbRet.found

\* best_kb_match was called for OrientationAgent with a case-different copy of
\* its first question, and answered
C14_Witness ==
    /\ kbDone
    /\ kbAgent = OrientationAgent
    /\ kbMsg = Msg_HowCanIStart
    /\ kbRet.found

-----------------------------------------------------------------------------
(* ask: the claims *)

\* the name of the agent class registered under a key of self.subagents
SubagentName(key) ==
    CASE key = "orientation" -> OrientationAgent
      [] key = "tech" -> TechSupportAgent
      [] key = "progress" -> ProgressAgent
      [] key = "faq" -> FAQAgent
      [] OTHER -> Assistant

\* ask has taken the local router for a reply that is generic and names no agent
FellBackOnGeneric ==
    /\ askPc \in {"more", "final", "done"}
    /\ askRouteResult # NoneResult
    /\ NoAttribution(askParsed.agent_name)
    /\ askParsed.reply_text # <<>>
    /\ ~IsSpace(askParsed.reply_text)
    /\ looks_generic_assistant(askParsed.reply_text)

\* C23: when ask falls back on the local router because the reply of route is
\* generic and names no agent, local_route_message chooses the agent route
\* chose for the message, one of the four specialized agents.
C23_LocalRouterAgreesWithRoute ==
    FellBackOnGeneric =>
        /\ askAgent = SubagentName(rtAgent)
        /\ askAgent \in {OrientationAgent, TechSupportAgent, ProgressAgent, FAQAgent}

\* the letter c in lower case and in upper case
BothCases(c) ==
    {c} \cup {UpperCase[u] : u \in {v \in 1..Len(LowerCase) : LowerCase[v] = c}}

\* text holds the phrase p at some position, each letter in either case
HoldsPhrase(text, p) ==
    \E i \in 1..(Len(text) - Len(p) + 1) :
        \A k \in 1..Len(p) : text[i + k - 1] \in BothCases(p[k])

\* the number of whitespace-separated words of text: the positions at which a
\* word begins
WordCount(text) ==
    Cardinality({i \in 1..Len(text) :
        text[i] \notin Whitespace /\ (i = 1 \/ text[i - 1] \in Whitespace)})

\* C24: a reply is generic exactly when it is empty, or holds one of the
\* generic phrases in whatever case, or has 20 words or fewer; a reply of more
\* than 20 words that holds no generic phrase is not generic.
C24_GenericExactly ==
    genDone =>
        /\ genRet <=> \/ genText = <<>>
                      \/ \E p \in generic_phrases : HoldsPhrase(genText, p)
                      \/ WordCount(genText) <= 20
        /\ (WordCount(genText) > 20 /\ \A p \in generic_phrases : ~HoldsPhrase(genText, p)) => ~genRet

\* the test has answered for a reply of exactly 20 words with no generic phrase
C24_Witness ==
    /\ genDone
    /\ genRet
    /\ WordCount(genText) = 20
    /\ \A p \in generic_phrases : ~HoldsPhrase(genText, p)

\* the route result named an agent: after the parsing agent_name is a name
\* other than the placeholder "Assistant"
C11_Attributed == askParsed.agent_name # <<>> /\ askParsed.agent_name # Assistant

\* C11: in ask the knowledge base is looked up only when the route result
\* carries no agent attribution or its reply is generic (an empty reply is
\* generic); when the route result carries an agent name and a non-empty reply,
\* the reply returned is that reply under that agent's name, not a
\* knowledge-base answer and without the local-KB tag.
C11_KbOnlyWithoutAttribution ==
    askPc = "done" /\ askRet.ok = "True" =>
        /\ askLookups # <<>> =>
              ~C11_Attributed \/ looks_generic_assistant(askParsed.reply_text)
        /\ C11_Attributed /\ askParsed.reply_text # <<>> =>
              /\ askRet.reply = askParsed.reply_text
              /\ askRet.agent = askParsed.agent_name
              /\ ~askUsedKb
              /\ askLookups = <<>>

\* ask has answered a message the knowledge base has an answer for with the
\* short reply the route result gave under the name of TechSupportAgent
C11_Witness ==
    /\ askPc = "done"
    /\ askMsg = Msg_ForgotPassword
    /\ askRouteResult = ListResult(<<TechSupportAgent, Reply_Short>>)
    /\ askRet.reply = Reply_Short
    /\ askRet.agent = TechSupportAgent

-----------------------------------------------------------------------------
(* The leaf agents: the claims *)

\* the message holds one of the phrases, in whatever case
HoldsAny(message, phrases) == \E p \in phrases : HoldsPhrase(message, p)

LockdownTopic == {<<"l", "o", "c", "k", "d", "o", "w", "n">>, <<"r", "e", "s", "p", "o", "n", "d", "u", "s">>}

OfficeTopic == {<<"m", "s", "3", "6", "5">>, <<"o", "f", "f", "i", "c", "e">>}

LoginTopic == {<<"c", "a", "n", "'", "t", " ", "l", "o", "g", "i", "n">>, <<"f", "o", "r", "g", "o", "t", " ", "p", "a", "s", "s", "w", "o", "r", "d">>}

AccessCodeTopic == {<<"a", "c", "c", "e", "s", "s", " ", "c", "o", "d", "e">>}

ActivationTopic == {<<"a", "c", "t", "i", "v", "a", "t", "e">>, <<"c", "o", "u", "r", "s", "e", " ", "s", "t", "a", "t", "u", "s">>}

\* C26: TechSupportAgent answers the lockdown-browser topic ahead of office /
\* 365 ahead of login / password, ProgressAgent answers "access code" ahead of
\* activation / course status; a message that matches none of an agent's
\* conditions goes to the LLM as it is, and a message that matches several
\* gets the answer of the earliest one only.
C26_FirstMatchWins ==
    leafDone =>
        /\ leafAgent = "tech" =>
              /\ HoldsAny(leafMsg, LockdownTopic) => leafOut = ViaLlm(LockdownPrompt)
              /\ (~HoldsAny(leafMsg, LockdownTopic) /\ HoldsAny(leafMsg, OfficeTopic)) =>
                    leafOut = ViaSearch(Ms365Query)
              /\ (~HoldsAny(leafMsg, LockdownTopic) /\ ~HoldsAny(leafMsg, OfficeTopic) /\ HoldsAny(leafMsg, LoginTopic)) =>
                    leafOut = ViaText(ResetText)
              /\ ~HoldsAny(leafMsg, LockdownTopic \cup OfficeTopic \cup LoginTopic) =>
                    leafOut = ViaLlm(leafMsg)
        /\ leafAgent = "progress" =>
              /\ HoldsAny(leafMsg, AccessCodeTopic) =>
                    leafOut \in {ViaText(AccessCodeText), ViaText(NoAccessCodeText), ViaRaise("TypeError")}
              /\ (~HoldsAny(leafMsg, AccessCodeTopic) /\ HoldsAny(leafMsg, ActivationTopic)) =>
                    leafOut = ViaText(ActivationText)
              /\ ~HoldsAny(leafMsg, AccessCodeTopic \cup ActivationTopic) =>
                    leafOut = ViaLlm(leafMsg)

\* TechSupportAgent has answered a message that names office ahead of lockdown
C26_Witness ==
    /\ leafDone
    /\ leafAgent = "tech"
    /\ leafMsg = <<"m", "y", " ", "o", "f", "f", "i", "c", "e", " ", "L", "o", "c", "k", "D", "o", "w", "n">>
    /\ leafOut = ViaLlm(LockdownPrompt)

====
